---- MODULE Spec2Model ----
(***************************************************************************)
(* A model of the shard store of src/data-providers/yjs/thoughtspace.ts:   *)
(* the in-memory caches of thought and lexeme documents, their IndexedDB   *)
(* and websocket providers, retention, and the asynchronous operations     *)
(* replicateChildren / replicateThought / getThoughtById / freeThought /   *)
(* deleteThought and replicateLexeme / freeLexeme / deleteLexeme.          *)
(*                                                                         *)
(* Every async function is a call record in `calls`; one action is the     *)
(* synchronous stretch of code between two suspension points (await).      *)
(* Every Y.Doc created by a replicate call, together with the providers    *)
(* and the promises created with it, is one entry of `heap`.               *)
(***************************************************************************)
EXTENDS Integers, Sequences, FiniteSets, Bags, TLC

\* ---------------------------------------------------------------- bounds
\* Number of calls the application issues in one behaviour.
MaxCalls == 3
\* Number of calls in flight at the same time.
MaxInFlight == 2
\* Number of documents (Y.Doc with providers) created in one behaviour.
MaxGen == 2
\* Number of entries handed to the doclog in one behaviour.
MaxLog == 4

\* ------------------------------------------------------------- constants
ROOT_PARENT_ID == "R"
HOME_TOKEN == "h"
None == "none"
NoDoc == 0

\* The tree held by the storage tiers: HOME has the child a, a has the child b.
\* A ThoughtId is any string; acx-b is a thought outside the tree whose id
\* contains the characters cx-.
ThoughtIds == {"h", "a", "b", "acx-b"}
\* Keys of the thought documents the application works with (a document
\* holds the children of the thought its key names).
ThoughtKeys == {"h", "a"}
LexemeKeys == {"w"}

\* childrenMap of a stored thought (ThoughtDb.m).
childrenMap(id) == IF id = "h" THEN {"a"} ELSE IF id = "a" THEN {"b"} ELSE {}

\* ------------------------------------------------------ thought documents
\* A thought Y.Doc: the map 'thought' with the field docKey (None: not set),
\* the map 'children' (the ids of the ThoughtDb records it holds) and the ids
\* of the records deleted from that map, which a merge does not bring back.
EmptyThoughtDoc == [docKey |-> None, children |-> {}, deleted |-> {}]

\* What a storage tier holds for document k when it holds anything.
StoredThoughtDoc(k) ==
  [docKey |-> IF k = "h" THEN ROOT_PARENT_ID ELSE "h", children |-> childrenMap(k),
   deleted |-> {}]

\* Applying a provider's update to a document (a CRDT merge).
MergeThoughtDoc(doc, update) ==
  [docKey |-> IF update.docKey # None THEN update.docKey ELSE doc.docKey,
   children |-> (doc.children \cup update.children) \ (doc.deleted \cup update.deleted),
   deleted |-> doc.deleted \cup update.deleted]

\* yChildren.delete(id): deletes the record when the map holds it.
childrenDelete(doc, id) ==
  IF id \in doc.children
    THEN [doc EXCEPT !.children = @ \ {id}, !.deleted = @ \cup {id}]
    ELSE doc

\* getChildren: undefined (Absent) when the field docKey is not set.
HasChildren(doc) == doc.docKey # None

getChildren(doc) == IF HasChildren(doc) THEN doc.children ELSE {}

\* getThought(doc, id) is defined iff the children map holds a record of id.
HasThought(doc, id) == id \in doc.children

\* ------------------------------------------------------- lexeme documents
\* A lexeme Y.Doc is a map from field names to values: the scalars c, l, u
\* and one field cx-<id> per context, holding the docKey of that context. A
\* deleted field holds Tombstone, which a merge does not replace.
Tombstone == "deleted"
LexemeScalars == {"c", "l", "u"}
\* `cx-${cxid}`
CxField(id) == "cx-" \o id
CxFields == {CxField(id) : id \in ThoughtIds}

\* key.indexOf('cx-', from), counted from 1; 0 when there is no occurrence.
RECURSIVE indexOf(_, _)
indexOf(key, from) ==
  IF from + 2 > Len(key) THEN 0
  ELSE IF SubSeq(key, from, from + 2) = "cx-" THEN from
  ELSE indexOf(key, from + 1)

\* key.split('cx-')[1]: what stands between the first and the second
\* occurrence of cx- (or the end); undefined (None) without an occurrence.
Cxid(field) ==
  LET first == indexOf(field, 1)
      second == indexOf(field, first + 3)
  IN IF first = 0 THEN None
     ELSE IF second = 0 THEN SubSeq(field, first + 3, Len(field))
     ELSE SubSeq(field, first + 3, second - 1)

\* if (cxid): the key is taken for a context when the part is a non-empty
\* string.
IsContextKey(field) == Cxid(field) \notin {None, ""}

EmptyLexemeDoc == [f \in {} |-> None]

StoredLexemeDoc == [f \in LexemeScalars \cup {"cx-a"} |->
                      IF f = "cx-a" THEN "h" ELSE IF f = "u" THEN "me" ELSE "t1"]

MergeLexemeDoc(doc, update) ==
  [f \in DOMAIN doc \cup DOMAIN update |->
     IF f \notin DOMAIN update THEN doc[f]
     ELSE IF f \notin DOMAIN doc THEN update[f]
     ELSE IF doc[f] = Tombstone THEN Tombstone
     ELSE update[f]]

\* The keys of the map (lexemeMap.keys()).
LexemeFields(doc) == {f \in DOMAIN doc : doc[f] # Tombstone}

\* getLexeme: undefined when the map is empty (size 0).
HasLexeme(doc) == LexemeFields(doc) # {}

\* The keys of the map that getLexeme and replicateLexeme take for contexts.
ContextKeys(doc) == {f \in LexemeFields(doc) : IsContextKey(f)}

LexemeContexts(doc) == {Cxid(f) : f \in ContextKeys(doc)}

\* docKeys.set(cxid, lexemeRaw[key]) for every context key of the map.
setContextDocKeys(dk, doc) ==
  [x \in DOMAIN dk |->
     IF x \in LexemeContexts(doc)
       THEN doc[CHOOSE f \in ContextKeys(doc) : Cxid(f) = x]
       ELSE dk[x]]

\* ------------------------------------------------------------------ state
VARIABLES
  thoughtDocs,              \* docKey -> document (NoDoc: not in the map)
  thoughtPersistence,       \* docKey -> document whose IndexeddbPersistence is cached
  thoughtRetained,          \* set of docKeys
  thoughtWebsocketProvider, \* docKey -> document whose HocuspocusProvider is cached
  thoughtIDBSynced,         \* docKey -> document whose idbSynced promise is cached
  thoughtWebsocketSynced,   \* docKey -> document whose websocketSynced promise is cached
  lexemeDocs,
  lexemePersistence,
  lexemeRetained,
  lexemeWebsocketProvider,
  lexemeIDBSynced,
  lexemeWebsocketSynced,
  docKeys,                  \* thought id -> docKey (None: no entry)
  indexeddb,                \* docKey or lexeme key -> the document in the local database
  server,                   \* docKey or lexeme key -> the document on the websocket server
  doclog,                   \* the entries of the doclog, in order
  heap,                     \* the documents created so far, in order of creation
  calls,                    \* the bag of the calls in flight and of the ones
                            \* that have just settled
  issued,                   \* number of calls issued so far
  resolved,                 \* the writes and deletes that have resolved, in order
  replicas,                 \* device -> the map of its document of the Lexeme w
  writes,                   \* device -> the updateLexeme transaction it has run
  appended,                 \* the entries handed to replication.log, in order
  controller,               \* the replication controller of the doclog
  batcher,                  \* the throttled updateThoughts of the application
  idbErrors,                \* what the catch handlers of idbSynced have done
  auth,                     \* the permissions of the websocket server
  blocks                    \* the blocks array of the doclog document and what init did to it

thoughtMaps == <<thoughtDocs, thoughtPersistence, thoughtWebsocketProvider,
                 thoughtIDBSynced, thoughtWebsocketSynced>>
lexemeMaps == <<lexemeDocs, lexemePersistence, lexemeWebsocketProvider,
                lexemeIDBSynced, lexemeWebsocketSynced>>
thoughtVars == <<thoughtMaps, thoughtRetained>>
lexemeVars == <<lexemeMaps, lexemeRetained>>
storeVars == <<indexeddb, server>>
writeVars == <<replicas, writes>>
logVars == <<doclog, appended>>
replicationVars == <<controller, batcher, idbErrors>>
vars == <<thoughtVars, lexemeVars, docKeys, storeVars, logVars, heap, calls, issued,
         resolved, writeVars, auth, blocks, replicationVars>>

Gens == 1..Len(heap)
Calls == DOMAIN calls

\* A document as created by replicateChildren / replicateLexeme.
\*   destroyed          Y.Doc.destroy() was called
\*   idb                state of persistence.whenSynced
\*   idbDestroyed       the IndexeddbPersistence was destroyed
\*   idbSynced          state of the idbSynced promise chain
\*   websocket          whether a HocuspocusProvider was opened
\*   websocketSynced    state of the websocketSynced promise
NewDoc(kind, key, remote, content) ==
  [kind |-> kind, key |-> key, content |-> content,
   destroyed |-> FALSE,
   idb |-> "pending", idbDestroyed |-> FALSE, idbSynced |-> "pending",
   websocket |-> remote, websocketDestroyed |-> FALSE,
   websocketSynced |-> "pending"]

\* What a storage tier holds: nothing, or the stored tree and the stored Lexeme.
EmptyStore == [k \in ThoughtKeys \cup LexemeKeys |->
                 IF k \in ThoughtKeys THEN EmptyThoughtDoc ELSE EmptyLexemeDoc]

FullStore == [k \in ThoughtKeys \cup LexemeKeys |->
                IF k \in ThoughtKeys THEN StoredThoughtDoc(k) ELSE StoredLexemeDoc]

MergeDoc(kind, doc, update) ==
  IF kind = "thought" THEN MergeThoughtDoc(doc, update) ELSE MergeLexemeDoc(doc, update)

\* The local database after the document d changed to content: the
\* IndexeddbPersistence stores the updates of its document from the time the
\* database is open until it is destroyed.
storeUpdate(db, d, content) ==
  IF d.idb = "synced" /\ ~d.idbDestroyed
    THEN [db EXCEPT ![d.key] = MergeDoc(d.kind, @, content)]
    ELSE db

\* The server after the document d changed to content: the HocuspocusProvider
\* sends the updates of its document from the time it is synced until it is
\* destroyed.
sendUpdate(srv, d, content) ==
  IF d.websocket /\ d.websocketSynced = "synced" /\ ~d.websocketDestroyed
    THEN [srv EXCEPT ![d.key] = MergeDoc(d.kind, @, content)]
    ELSE srv

\* The promise a call awaits: the idbSynced chain, the websocketSynced promise
\* or persistence.whenSynced of the document g (NoDoc: the awaited value is
\* undefined).
Awaited(promise, g) == [promise |-> promise, doc |-> g]

\* await p continues once p is settled; awaiting undefined continues at once.
Settled(w) ==
  IF w.doc = NoDoc THEN TRUE
  ELSE IF w.promise = "websocketSynced" THEN heap[w.doc].websocketSynced = "synced"
  ELSE IF w.promise = "whenSynced" THEN heap[w.doc].idb = "synced"
  ELSE heap[w.doc].idbSynced = "done"

NewCall(op, key, id, background, remote) ==
  [op |-> op, key |-> key, id |-> id, background |-> background, remote |-> remote,
   pc |-> "start", doc |-> NoDoc, wait |-> Awaited("idbSynced", NoDoc), cached |-> FALSE,
   result |-> "pending", nodes |-> {}, loaded |-> {}, notified |-> {},
   retainedAt |-> "never", remoteSynced |-> FALSE, purge |-> None,
   after |-> 0, localEmpty |-> FALSE]

\* --------------------------------------------------------------- docKeys
docKeysDelete(dk, id) == [x \in ThoughtIds |-> IF x = id THEN None ELSE dk[x]]

\* docKeys.set(child.id, docKey) and docKeys.set(grandchildId, child.id) for
\* every child of the list and every grandchild in its childrenMap.
setChildrenDocKeys(dk, docKey, children) ==
  [x \in ThoughtIds |->
     IF \E child \in children : x \in childrenMap(child)
       THEN CHOOSE child \in children : x \in childrenMap(child)
     ELSE IF x \in children THEN docKey
     ELSE dk[x]]

\* The parent docKey of a document, as read in the idbSynced and
\* websocketSynced handlers.
parentDocKey(docKey, doc) ==
  IF docKey = ROOT_PARENT_ID THEN None
  ELSE IF docKey = HOME_TOKEN THEN ROOT_PARENT_ID
  ELSE doc.docKey

setParentDocKey(dk, docKey, doc) ==
  IF parentDocKey(docKey, doc) # None
    THEN [dk EXCEPT ![docKey] = parentDocKey(docKey, doc)]
    ELSE dk

\* init seeds docKeys from the cursor path: each id maps to the id before it,
\* the first one to HOME.
cursorDocKeys(cursor) ==
  [x \in ThoughtIds |->
     IF x = HOME_TOKEN THEN ROOT_PARENT_ID
     ELSE IF \E i \in 1..Len(cursor) : cursor[i] = x
       THEN LET i == CHOOSE j \in 1..Len(cursor) : cursor[j] = x
            IN IF i = 1 THEN HOME_TOKEN ELSE cursor[i - 1]
     ELSE None]

Cursors == {<<>>, <<"a">>}

NoMap(keys) == [k \in keys |-> NoDoc]

\* An entry of the doclog: [id, action] in the thoughtLog or the lexemeLog.
LogEntry(id, type, action) == [id |-> id, type |-> type, action |-> action]

\* --------------------------------------------------------- change batcher
\* One batch of updateThoughtsThrottled carries the value of one key: a
\* thought or lexeme (live TRUE) or the explicit null of a deletion. seq is
\* the position of the batch among the submissions.
BatchKey(type, id) == <<type, id>>
EmptyBatch == [k \in {} |-> None]
Batch(type, id, live, seq) ==
  [k \in {BatchKey(type, id)} |-> [live |-> live, seq |-> seq]]

\* mergeBatch: a later value of a key overrides an earlier one.
mergeBatch(accum, batch) ==
  [k \in DOMAIN accum \cup DOMAIN batch |->
     IF k \in DOMAIN batch THEN batch[k] ELSE accum[k]]

\* batches.reduce(mergeBatch, empty)
RECURSIVE reduce(_)
reduce(batches) ==
  IF batches = <<>> THEN EmptyBatch
  ELSE mergeBatch(reduce(SubSeq(batches, 1, Len(batches) - 1)), batches[Len(batches)])

\* The throttled function after construction: no window is open, nothing
\* is queued, no timer is pending, nothing has been delivered.
throttleConcat ==
  [open |-> FALSE, queue |-> <<>>, timers |-> <<>>, delivered |-> <<>>,
   submitted |-> <<>>, windows |-> 0]

\* A faulty variant of updateThoughtsCallback: the merged batch is handed to
\* onUpdateThoughts inside the callback.
updateThoughtsInline(b, batches) ==
  [b EXCEPT !.delivered = Append(@, reduce(batches))]

\* The callback of updateThoughtsThrottled: merge the batches and hand the
\* result to onUpdateThoughts from a timer, on the next tick.
updateThoughtsCallback(b, batches) ==
  [b EXCEPT !.timers = Append(@, reduce(batches))]

\* The leading edge of the throttled function is synchronous: a call made
\* while no window is open invokes the callback before it returns.
leadingEdge == TRUE

\* A call of the throttled function with one batch. submitted keeps, for
\* each call, the window it fell in and the keys of its batch.
throttle(b, batch) ==
  IF b.open
    THEN [b EXCEPT !.queue = Append(@, batch),
                   !.submitted = Append(@, [window |-> b.windows, keys |-> DOMAIN batch])]
    ELSE LET opened == [b EXCEPT !.open = TRUE, !.windows = @ + 1,
                                 !.submitted = Append(@, [window |-> b.windows + 1,
                                                          keys |-> DOMAIN batch])]
         IN IF leadingEdge
              THEN updateThoughtsCallback(opened, <<batch>>)
              ELSE [opened EXCEPT !.queue = Append(@, batch)]

\* The window closes after UPDATE_THOUGHTS_THROTTLE: the trailing edge
\* invokes the callback with the batches queued in the window, if any.
trailingEdge(b) ==
  IF b.queue = <<>>
    THEN [b EXCEPT !.open = FALSE]
    ELSE updateThoughtsCallback([b EXCEPT !.open = FALSE, !.queue = <<>>], b.queue)

\* The timer of the callback fires: onUpdateThoughts receives the merged batch.
onUpdateThoughts(b) ==
  [b EXCEPT !.timers = Tail(@), !.delivered = Append(@, Head(b.timers))]

\* ------------------------------------------------ replication controller
\* A faulty variant of paused: the controller is constructed running.
pausedFalse == FALSE

\* The paused option of replicationController in init.
paused == TRUE

\* The controller after construction. index is the number of entries of the
\* doclog processed so far (the watermark), step the entry being processed
\* (0: none), dispatched the entries handed to next, in order, errors the
\* entries whose step failed, started whether start has ever been called,
\* last the last call made on the controller and before the one before it.
replicationController ==
  [paused |-> paused, index |-> 0, step |-> 0, dispatched |-> <<>>,
   errors |-> {}, started |-> FALSE, last |-> "init", before |-> "init"]

\* ---------------------------------------------------- permissions server
\* The documents and access tokens presented to the server.
Docids == {"d1", "d2"}
AccessTokens == {"t1", "t2"}

\* yPermissions.get(docid) is undefined, or an object with one token as owner.
NoPermissions == [d \in Docids |-> None]

\* The server process after start: the Y.Doc of the permissions is empty,
\* the permissions LevelDB holds what earlier runs stored, and the function
\* that loads it has not returned from its await. owner is the first token
\* ever presented for each document, last the last call of authenticate.
NewServer(stored) ==
  [yPermissions |-> NoPermissions, ldb |-> stored, loaded |-> FALSE,
   owner |-> stored, last |-> [accessToken |-> None, docid |-> None, result |-> FALSE]]

\* The maps and sets of thoughtspace.ts before any call.
\* The doclog document before init is called: no options, no persistence
\* and an empty 'blocks' array.
NoInit ==
  [called |-> FALSE, tsidShared |-> FALSE, stored |-> 0, remote |-> 0,
   whenSynced |-> "pending", array |-> <<>>, provider |-> FALSE, received |-> 0,
   onError |-> <<>>]

InitMaps ==
  /\ thoughtDocs = NoMap(ThoughtKeys)
  /\ thoughtPersistence = NoMap(ThoughtKeys)
  /\ thoughtRetained = {}
  /\ thoughtWebsocketProvider = NoMap(ThoughtKeys)
  /\ thoughtIDBSynced = NoMap(ThoughtKeys)
  /\ thoughtWebsocketSynced = NoMap(ThoughtKeys)
  /\ lexemeDocs = NoMap(LexemeKeys)
  /\ lexemePersistence = NoMap(LexemeKeys)
  /\ lexemeRetained = {}
  /\ lexemeWebsocketProvider = NoMap(LexemeKeys)
  /\ lexemeIDBSynced = NoMap(LexemeKeys)
  /\ lexemeWebsocketSynced = NoMap(LexemeKeys)
  /\ heap = <<>>
  /\ calls = EmptyBag
  /\ issued = 0
  /\ resolved = <<>>
  /\ controller = replicationController
  /\ batcher = throttleConcat
  /\ idbErrors = [timers |-> <<>>, aborted |-> <<>>, retried |-> <<>>, onError |-> <<>>]
  /\ auth = NewServer(NoPermissions)
  /\ blocks = NoInit

\* The module state of thoughtspace.ts before any call.
InitCaches ==
  /\ InitMaps
  /\ \E cursor \in Cursors : docKeys = cursorDocKeys(cursor)
  /\ replicas = <<>>
  /\ writes = <<>>

Init ==
  /\ InitCaches
  /\ indexeddb \in {EmptyStore, FullStore}
  /\ server \in {EmptyStore, FullStore}
  /\ doclog = <<>>
  /\ appended = <<>>

\* A device that opens the thoughtspace after another device deleted HOME:
\* its local database is empty, the doclog it shares holds the delete entry,
\* and the server holds the documents as they were stored.
PeerInit ==
  /\ InitCaches
  /\ indexeddb = EmptyStore
  /\ server = FullStore
  /\ doclog = <<LogEntry(HOME_TOKEN, "thought", "Delete")>>
  /\ appended = <<>>


\* ------------------------------------------------------------ call records
\* A settled call stays in `calls` for the one state that follows its last
\* step; the next step of any call or provider drops it.
InFlight == [call \in {x \in DOMAIN calls : x.pc # "done"} |-> calls[call]]

\* The writes and deletes that have resolved once the call has taken its
\* step; resident tells whether a delete found the Lexeme in memory.
Resolving(call) ==
  IF /\ call.op \in {"updateThought", "deleteThought", "deleteLexeme"}
     /\ call.pc = "done" /\ call.result = "ok"
    THEN Append(resolved, [op |-> call.op, key |-> call.key, resident |-> call.cached])
    ELSE resolved

\* A call is issued. The record keeps how many writes and deletes had
\* resolved, and whether the local database of the key was empty, when the
\* call was made.
Issue(op, key, id, background, remote, rec) ==
  /\ issued < MaxCalls
  /\ BagCardinality(InFlight) < MaxInFlight
  /\ issued' = issued + 1
  /\ LET call == [NewCall(op, key, id, background, remote) EXCEPT
                    !.pc = rec.pc, !.doc = rec.doc, !.wait = rec.wait,
                    !.cached = rec.cached, !.result = rec.result,
                    !.retainedAt = rec.retainedAt,
                    !.after = Len(resolved),
                    !.localEmpty = IF key \in DOMAIN indexeddb
                                     THEN indexeddb[key] = EmptyStore[key] ELSE FALSE]
     IN /\ calls' = InFlight (+) SetToBag({call})
        /\ resolved' = Resolving(call)
  /\ UNCHANGED <<logVars, writeVars, auth, blocks>>

\* The application issues a call.
Calling(op, key, id, background, remote, rec) ==
  /\ Issue(op, key, id, background, remote, rec)
  /\ UNCHANGED replicationVars

\* The call c continues after its await and becomes call.
Continue(c, call) ==
  /\ calls' = (InFlight (-) SetToBag({c})) (+) SetToBag({call})
  /\ resolved' = Resolving(call)
  /\ UNCHANGED <<issued, logVars, writeVars, auth, blocks, replicationVars>>

\* A step of a provider.
ProviderStep ==
  /\ calls' = InFlight
  /\ UNCHANGED <<issued, logVars, resolved, writeVars, auth, blocks, replicationVars>>

\* The value a replicate call resolves with, read from the document content.
Resolved(call, doc) ==
  [call EXCEPT
     !.pc = IF call.op = "getThoughtById" THEN "getThought" ELSE "done",
     !.result = IF call.op = "replicateChildren"
                  THEN IF HasChildren(doc.content) THEN "nodes" ELSE "absent"
                ELSE IF HasChildren(doc.content) /\ HasThought(doc.content, call.id)
                  THEN "node" ELSE "absent",
     !.nodes = IF call.op = "replicateChildren" THEN getChildren(doc.content)
               ELSE getChildren(doc.content) \cap {call.id},
     !.remoteSynced = doc.websocket /\ doc.websocketSynced = "synced"]

\* ------------------------------------------------------------ deallocation
destroyDoc(h, g) ==
  [x \in DOMAIN h |-> IF x = g THEN [h[x] EXCEPT !.destroyed = TRUE, !.idbDestroyed = TRUE]
                      ELSE h[x]]

\* A faulty variant of destroyProvider: the HocuspocusProvider is left to the
\* destruction of its document, which does not destroy it.
destroyProviderSkipped(h, g) == h

destroyProvider(h, g) ==
  [x \in DOMAIN h |-> IF x = g THEN [h[x] EXCEPT !.websocketDestroyed = TRUE] ELSE h[x]]

\* thoughtMap.get('id') of a child record: ThoughtDb has the fields
\* a, c, l, m, p, r, u, v and no field id, so the lookup yields undefined.
thoughtMapGetId(child) == None

\* A faulty variant of isRetained: deallocation does not look at the
\* retained set.
isRetainedNever(retained, key) == FALSE

\* The guard of tryDeallocateThought / tryDeallocateLexeme.
isRetained(retained, key) == key \in retained

\* The cache maps after the deletes of tryDeallocateThought.
mapDelete(map, key) == [map EXCEPT ![key] = NoDoc]

\* A faulty variant of mapSet: the caches are not filled before the first
\* await of the call.
mapSetSkipped(map, key, g) == map

\* A cache map after the set made in the synchronous part of a replicate call.
mapSet(map, key, g) == [map EXCEPT ![key] = g]

\* A faulty variant of tryDeallocateThought: the docKey of the thought itself
\* is removed along with the ones of its children.
tryDeallocateThoughtOwnKey(docKey) ==
  IF isRetained(thoughtRetained, docKey)
    THEN UNCHANGED <<thoughtMaps, heap, docKeys>>
    ELSE
      /\ docKeys' =
           IF thoughtDocs[docKey] = NoDoc THEN docKeys
           ELSE LET ids == {thoughtMapGetId(child) :
                              child \in heap[thoughtDocs[docKey]].content.children}
                IN [x \in ThoughtIds |->
                      IF x \in ids \/ x = docKey THEN None ELSE docKeys[x]]
      /\ heap' = destroyProvider(destroyDoc(heap, thoughtDocs[docKey]),
                                 thoughtWebsocketProvider[docKey])
      /\ thoughtDocs' = mapDelete(thoughtDocs, docKey)
      /\ thoughtPersistence' = mapDelete(thoughtPersistence, docKey)
      /\ thoughtIDBSynced' = mapDelete(thoughtIDBSynced, docKey)
      /\ thoughtWebsocketProvider' = mapDelete(thoughtWebsocketProvider, docKey)
      /\ thoughtWebsocketSynced' = mapDelete(thoughtWebsocketSynced, docKey)

tryDeallocateThought(docKey) ==
  IF isRetained(thoughtRetained, docKey)
    THEN UNCHANGED <<thoughtMaps, heap, docKeys>>
    ELSE
      /\ docKeys' =
           IF thoughtDocs[docKey] = NoDoc THEN docKeys
           ELSE LET ids == {thoughtMapGetId(child) :
                              child \in heap[thoughtDocs[docKey]].content.children}
                IN [x \in ThoughtIds |-> IF x \in ids THEN None ELSE docKeys[x]]
      /\ heap' = destroyProvider(destroyDoc(heap, thoughtDocs[docKey]),
                                 thoughtWebsocketProvider[docKey])
      /\ thoughtDocs' = mapDelete(thoughtDocs, docKey)
      /\ thoughtPersistence' = mapDelete(thoughtPersistence, docKey)
      /\ thoughtIDBSynced' = mapDelete(thoughtIDBSynced, docKey)
      /\ thoughtWebsocketProvider' = mapDelete(thoughtWebsocketProvider, docKey)
      /\ thoughtWebsocketSynced' = mapDelete(thoughtWebsocketSynced, docKey)

\* A faulty variant of cachedWait: a call that finds the document cached
\* always awaits the idbSynced promise.
cachedWaitLocal(background, remote, idbSynced, websocketSynced) ==
  Awaited("idbSynced", idbSynced)

\* ----------------------------------------------------- replicateChildren
\* Which promise a call that finds the document cached awaits.
cachedWait(background, remote, idbSynced, websocketSynced) ==
  IF background /\ remote THEN Awaited("websocketSynced", websocketSynced)
  ELSE Awaited("idbSynced", idbSynced)

\* Whether the HocuspocusProvider of a new thought document is created in
\* the synchronous part of replicateChildren.
opensWebsocket(remote) == remote

\* The call up to its first await: retain, then either await the promise of
\* the cached document or create the document, its providers and promises
\* and cache them.
replicateChildrenStart(op, id, docKey, background, remote) ==
  /\ thoughtRetained' = IF background THEN thoughtRetained
                        ELSE thoughtRetained \cup {docKey}
  /\ UNCHANGED <<lexemeVars, docKeys, storeVars>>
  /\ IF thoughtDocs[docKey] # NoDoc
       THEN /\ Issue(op, docKey, id, background, remote,
                 [pc |-> "cached", doc |-> thoughtDocs[docKey],
                  wait |-> cachedWait(background, remote, thoughtIDBSynced[docKey],
                                      thoughtWebsocketSynced[docKey]),
                  cached |-> TRUE, result |-> "pending",
                  retainedAt |-> IF background THEN "never" ELSE "call"])
            /\ UNCHANGED <<thoughtMaps, heap>>
       ELSE /\ Len(heap) < MaxGen
            /\ LET g == Len(heap) + 1 IN
                 /\ heap' = Append(heap, NewDoc("thought", docKey, opensWebsocket(remote),
                                                EmptyThoughtDoc))
                 /\ thoughtDocs' = mapSet(thoughtDocs, docKey, g)
                 /\ thoughtIDBSynced' = mapSet(thoughtIDBSynced, docKey, g)
                 /\ thoughtPersistence' = mapSet(thoughtPersistence, docKey, g)
                 /\ IF opensWebsocket(remote)
                      THEN /\ thoughtWebsocketProvider' = mapSet(thoughtWebsocketProvider, docKey, g)
                           /\ thoughtWebsocketSynced' = mapSet(thoughtWebsocketSynced, docKey, g)
                      ELSE UNCHANGED <<thoughtWebsocketProvider, thoughtWebsocketSynced>>
                 /\ Issue(op, docKey, id, background, remote,
                      [pc |-> "idbSynced", doc |-> g, wait |-> Awaited("idbSynced", g),
                       cached |-> FALSE, result |-> "pending",
                       retainedAt |-> IF background THEN "never" ELSE "call"])

replicateChildren(docKey, background, remote) ==
  /\ replicateChildrenStart("replicateChildren", None, docKey, background, remote)
  /\ UNCHANGED replicationVars

\* A faulty variant of replicateThoughtStart: a missing docKey resolves with
\* undefined instead of throwing.
replicateThoughtLenient(op, id) ==
  IF docKeys[id] = None
    THEN /\ Calling(op, None, id, FALSE, TRUE,
              [pc |-> "done", doc |-> NoDoc, wait |-> Awaited("idbSynced", NoDoc),
               cached |-> FALSE, result |-> "absent", retainedAt |-> "never"])
         /\ UNCHANGED <<thoughtVars, lexemeVars, docKeys, heap, storeVars>>
    ELSE /\ replicateChildrenStart(op, id, docKeys[id], FALSE, TRUE)
         /\ UNCHANGED replicationVars

\* replicateThought throws when docKeys has no entry for id.
replicateThoughtStart(op, id) ==
  IF docKeys[id] = None
    THEN /\ Calling(op, None, id, FALSE, TRUE,
              [pc |-> "done", doc |-> NoDoc, wait |-> Awaited("idbSynced", NoDoc), cached |-> FALSE,
               result |-> "error", retainedAt |-> "never"])
         /\ UNCHANGED <<thoughtVars, lexemeVars, docKeys, heap, storeVars>>
    ELSE /\ replicateChildrenStart(op, id, docKeys[id], FALSE, TRUE)
         /\ UNCHANGED replicationVars

getThoughtById(id) == replicateThoughtStart("getThoughtById", id)

IsReplicateThought(call) ==
  call.op \in {"replicateChildren", "replicateThought", "getThoughtById"}

\* The cached branch after its await: read the children, set their docKeys.
replicateChildrenCached(c) ==
  /\ IsReplicateThought(c) /\ c.pc = "cached"
  /\ Settled(c.wait)
  /\ docKeys' = setChildrenDocKeys(docKeys, c.key,
                                   getChildren(heap[c.doc].content))
  /\ Continue(c, Resolved(c, heap[c.doc]))
  /\ UNCHANGED <<thoughtVars, lexemeVars, heap, storeVars>>

\* The end of the uncached branch: tryDeallocateThought and return.
replicateChildrenReturn(c) ==
  /\ tryDeallocateThought(c.key)
  /\ Continue(c, Resolved(c, heap[c.doc]))
  /\ UNCHANGED <<thoughtRetained, lexemeVars, storeVars>>

\* After await idbSynced: foreground returns, background without remote
\* returns, background with remote awaits websocketSynced.
replicateChildrenIDBSynced(c) ==
  /\ IsReplicateThought(c) /\ c.pc = "idbSynced"
  /\ Settled(c.wait)
  /\ IF c.background /\ c.remote
       THEN /\ Continue(c, [c EXCEPT !.pc = "websocketSynced"])
            /\ UNCHANGED <<thoughtVars, lexemeVars, docKeys, heap, storeVars>>
       ELSE replicateChildrenReturn(c)

\* After await websocketSynced: the children read here are each passed to
\* isThoughtLoaded.
replicateChildrenWebsocketSynced(c) ==
  /\ IsReplicateThought(c) /\ c.pc = "websocketSynced"
  /\ Settled(Awaited("websocketSynced", c.doc))
  /\ Continue(c, [c EXCEPT !.pc = "isThoughtLoaded",
                            !.nodes = getChildren(heap[c.doc].content)])
  /\ UNCHANGED <<thoughtVars, lexemeVars, docKeys, heap, storeVars>>

\* A faulty variant of foregrounds: every record is foregrounded.
foregroundsAlways(loaded) == TRUE

\* Whether a child the application reported as loaded or not is foregrounded.
foregrounds(loaded) == loaded

\* After await isThoughtLoaded(child), for the children of the document: a
\* loaded child retains the docKey and is passed to onThoughtChange, which
\* sets the docKeys of its children and calls the application.
replicateChildrenIsThoughtLoaded(c) ==
  /\ IsReplicateThought(c) /\ c.pc = "isThoughtLoaded"
  /\ \E loaded \in SUBSET c.nodes :
       LET fg == {child \in c.nodes : foregrounds(child \in loaded)}
           changed == {child \in fg : HasThought(heap[c.doc].content, child)}
       IN /\ thoughtRetained' = IF fg # {} THEN thoughtRetained \cup {c.key}
                                ELSE thoughtRetained
          /\ docKeys' = [x \in ThoughtIds |->
                           IF \E child \in changed : x \in childrenMap(child)
                             THEN CHOOSE child \in changed : x \in childrenMap(child)
                             ELSE docKeys[x]]
          /\ Continue(c, [c EXCEPT !.pc = "promiseAll",
                                    !.loaded = loaded,
                                    !.notified = changed,
                                    !.retainedAt = IF fg # {} THEN "loaded" ELSE "never"])
  /\ UNCHANGED <<thoughtMaps, lexemeVars, heap, storeVars>>

\* After await Promise.all(...): return.
replicateChildrenPromiseAll(c) ==
  /\ IsReplicateThought(c) /\ c.pc = "promiseAll"
  /\ replicateChildrenReturn(c)

\* getThoughtById after await replicateThought(id).
getThoughtByIdReturn(c) ==
  /\ c.op = "getThoughtById" /\ c.pc = "getThought"
  /\ LET docKey == docKeys[c.id]
         doc == IF docKey \in ThoughtKeys THEN thoughtDocs[docKey] ELSE NoDoc
         found == IF doc = NoDoc THEN FALSE
                  ELSE HasThought(heap[doc].content, c.id)
     IN Continue(c, [c EXCEPT !.pc = "done",
                               !.doc = doc,
                               !.result = IF found THEN "node" ELSE "absent"])
  /\ UNCHANGED <<thoughtVars, lexemeVars, docKeys, heap, storeVars>>

\* ------------------------------------------- providers of thought documents
\* The second handler of the idbSynced chain: set the docKeys of the
\* document, its children and grandchildren.
idbSyncedThen(g, doc) ==
  /\ docKeys' = setChildrenDocKeys(setParentDocKey(docKeys, heap[g].key, doc),
                                   heap[g].key, getChildren(doc))
  /\ heap' = [heap EXCEPT ![g].content = doc, ![g].idb = "synced",
                          ![g].idbSynced = "done"]

\* persistence.whenSynced resolves: the updates stored in the database have
\* been applied to the document and the state of the document is stored.
whenSynced(g) ==
  /\ indexeddb' = [indexeddb EXCEPT ![heap[g].key] =
                     MergeDoc(heap[g].kind, heap[g].content, @)]
  /\ server' = sendUpdate(server, heap[g],
                          MergeDoc(heap[g].kind, heap[g].content, indexeddb[heap[g].key]))

\* The provider emits synced: document and server have exchanged their
\* states, and the persistence stores what the document received.
synced(g) ==
  /\ server' = [server EXCEPT ![heap[g].key] =
                  MergeDoc(heap[g].kind, heap[g].content, @)]
  /\ indexeddb' = storeUpdate(indexeddb, heap[g],
                              MergeDoc(heap[g].kind, heap[g].content, server[heap[g].key]))

\* Whether the first handler of the idbSynced chain waits for the race of
\* websocketSynced against sleep(WEBSOCKET_TIMEOUT). Without a provider the
\* raced value is null, which settles the race at once.
forcedBackground(doc, status) == ~HasChildren(doc) /\ status # "disconnected"

\* persistence.whenSynced resolves: the stored updates are applied.
thoughtIndexeddbSynced(g) ==
  /\ heap[g].kind = "thought" /\ heap[g].idb = "pending" /\ ~heap[g].idbDestroyed
  /\ whenSynced(g)
  /\ \E status \in {"connected", "disconnected"} :
       LET doc == MergeThoughtDoc(heap[g].content, indexeddb[heap[g].key]) IN
         IF heap[g].websocket /\ forcedBackground(doc, status)
           THEN /\ heap' = [heap EXCEPT ![g].content = doc, ![g].idb = "synced",
                                        ![g].idbSynced = "race"]
                /\ UNCHANGED docKeys
           ELSE idbSyncedThen(g, doc)
  /\ UNCHANGED <<thoughtVars, lexemeVars>>
  /\ ProviderStep

\* A faulty variant of raceSettled: websocketSynced is awaited alone.
raceWithoutTimeout(websocketSynced, timedOut) == websocketSynced = "synced"

\* Promise.race([websocketSynced, sleep(WEBSOCKET_TIMEOUT)]) settles.
raceSettled(websocketSynced, timedOut) == websocketSynced = "synced" \/ timedOut

thoughtRace(g) ==
  /\ heap[g].kind = "thought" /\ heap[g].idbSynced = "race"
  /\ \E timedOut \in BOOLEAN : raceSettled(heap[g].websocketSynced, timedOut)
  /\ idbSyncedThen(g, heap[g].content)
  /\ UNCHANGED <<thoughtVars, lexemeVars, storeVars>>
  /\ ProviderStep

\* The provider emits synced: the remote updates are applied and the handler
\* of websocketSynced sets the docKeys.
thoughtWebsocketSyncedEvent(g) ==
  /\ heap[g].kind = "thought" /\ heap[g].websocket /\ ~heap[g].websocketDestroyed
  /\ heap[g].websocketSynced = "pending"
  /\ synced(g)
  /\ LET doc == MergeThoughtDoc(heap[g].content, server[heap[g].key]) IN
         /\ docKeys' = setChildrenDocKeys(setParentDocKey(docKeys, heap[g].key, doc),
                                          heap[g].key, getChildren(doc))
         /\ heap' = [heap EXCEPT ![g].content = doc, ![g].websocketSynced = "synced"]
  /\ UNCHANGED <<thoughtVars, lexemeVars>>
  /\ ProviderStep

\* ------------------------------------------------ freeThought, deleteThought
\* A faulty variant of unretain: the key stays in the set, as it would under
\* a count that a second retain had raised to two.
unretainCounted(retained, key) == retained

\* thoughtRetained.delete(docKey) / lexemeRetained.delete(key) of a Set.
unretain(retained, key) == retained \ {key}

\* freeThought up to its await of the cached idbSynced promise.
freeThoughtStart(docKey) ==
  /\ thoughtRetained' = unretain(thoughtRetained, docKey)
  /\ Issue("freeThought", docKey, None, FALSE, FALSE,
       [pc |-> "free", doc |-> thoughtDocs[docKey], wait |-> Awaited("idbSynced", thoughtIDBSynced[docKey]),
        cached |-> thoughtDocs[docKey] # NoDoc, result |-> "pending",
        retainedAt |-> "never"])
  /\ UNCHANGED <<thoughtMaps, lexemeVars, docKeys, storeVars>>

\* freeThought called by the application.
freeThought(docKey) ==
  /\ freeThoughtStart(docKey)
  /\ UNCHANGED <<heap, replicationVars>>

\* freeThought after its await: tryDeallocateThought.
freeThoughtDeallocate(c) ==
  /\ c.op = "freeThought" /\ c.pc = "free"
  /\ Settled(c.wait)
  /\ tryDeallocateThought(c.key)
  /\ Continue(c, [c EXCEPT !.pc = "done",
                            !.result = IF isRetained(thoughtRetained, c.key)
                                            THEN "retained" ELSE "deallocated"])
  /\ UNCHANGED <<thoughtRetained, lexemeVars, storeVars>>

\* deleteThought up to await config.
deleteThoughtStart(docKey) ==
  /\ Issue("deleteThought", docKey, None, FALSE, FALSE,
       [pc |-> "config", doc |-> NoDoc, wait |-> Awaited("idbSynced", NoDoc), cached |-> FALSE,
        result |-> "pending", retainedAt |-> "never"])
  /\ UNCHANGED <<thoughtVars, lexemeVars, docKeys, heap, storeVars>>

\* deleteThought called by the application.
deleteThought(docKey) ==
  /\ deleteThoughtStart(docKey)
  /\ UNCHANGED replicationVars

\* deleteThought from await config to the await of freeThought: delete the
\* record from the parent document, delete the docKeys of the thought and of
\* its children, start clearing the database (clearData destroys the
\* persistence first), and run freeThought up to its await.
deleteThoughtBody(c) ==
  /\ c.op = "deleteThought" /\ c.pc = "config"
  /\ LET docKey == c.key
         persistence == thoughtPersistence[docKey]
         docKeyParent == docKeys[docKey]
         docParent == IF docKeyParent \in ThoughtKeys THEN thoughtDocs[docKeyParent]
                      ELSE NoDoc
         children == IF thoughtDocs[docKey] = NoDoc THEN {}
                     ELSE getChildren(heap[thoughtDocs[docKey]].content)
     IN /\ heap' = [g \in DOMAIN heap |->
                      IF g = docParent /\ g = persistence
                        THEN [heap[g] EXCEPT !.content = childrenDelete(@, docKey),
                                             !.idbDestroyed = TRUE]
                      ELSE IF g = docParent
                        THEN [heap[g] EXCEPT !.content = childrenDelete(@, docKey)]
                      ELSE IF g = persistence
                        THEN [heap[g] EXCEPT !.idbDestroyed = TRUE]
                      ELSE heap[g]]
        /\ indexeddb' = IF docParent = NoDoc THEN indexeddb
                        ELSE storeUpdate(indexeddb, heap[docParent],
                                         childrenDelete(heap[docParent].content, docKey))
        /\ server' = IF docParent = NoDoc THEN server
                     ELSE sendUpdate(server, heap[docParent],
                                     childrenDelete(heap[docParent].content, docKey))
        /\ docKeys' = [x \in ThoughtIds |->
                         IF x = docKey \/ x \in children THEN None ELSE docKeys[x]]
        /\ thoughtRetained' = unretain(thoughtRetained, docKey)
        /\ Continue(c, [c EXCEPT !.pc = "freeThought",
                                  !.doc = thoughtDocs[docKey],
                                  !.wait = Awaited("idbSynced", thoughtIDBSynced[docKey])])
  /\ UNCHANGED <<thoughtMaps, lexemeVars>>

\* The freeThought called by deleteThought, after its await.
deleteThoughtFree(c) ==
  /\ c.op = "deleteThought" /\ c.pc = "freeThought"
  /\ Settled(c.wait)
  /\ tryDeallocateThought(c.key)
  /\ Continue(c, [c EXCEPT !.pc = "deleted"])
  /\ UNCHANGED <<thoughtRetained, lexemeVars, storeVars>>

\* A faulty variant of deleteResult: the catch block ignores every error.
deleteResultSwallowed(purge) == "ok"

\* What the catch block of deleteThought / deleteLexeme does with the error
\* of the database deletion: NotFoundError is ignored, others are rethrown.
deleteResult(purge) ==
  IF purge = "ok" \/ purge = "NotFoundError" THEN "ok" ELSE "rejected"

PurgeOutcomes == {"ok", "NotFoundError", "UnknownError"}

\* The deletion of the database of a document settles: it deletes the
\* database, or fails with NotFoundError, which indicates that the object
\* stores have already been deleted, or fails with another error.
deleteDB(key, purge) ==
  /\ purge = "NotFoundError" => indexeddb[key] = EmptyStore[key]
  /\ indexeddb' = IF purge = "ok" THEN [indexeddb EXCEPT ![key] = EmptyStore[key]]
                  ELSE indexeddb

\* await deleted: the database deletion settles.
deleteThoughtDeleted(c) ==
  /\ c.op = "deleteThought" /\ c.pc = "deleted"
  /\ \E purge \in PurgeOutcomes :
       /\ deleteDB(c.key, purge)
       /\ Continue(c, [c EXCEPT !.pc = "done", !.purge = purge,
                                 !.result = deleteResult(purge)])
  /\ UNCHANGED <<thoughtVars, lexemeVars, docKeys, heap, server>>

\* The calls the application issues: it replicates and frees the document of
\* HOME, reads the thought a, and deletes HOME or a.
\* updateThought(id, thought) with thought.parentId = parentId: the function
\* returns Promise.resolve() in its first statement, so the call resolves
\* without touching a document, a map or a storage tier.
updateThought(id, parentId) ==
  /\ Calling("updateThought", parentId, id, FALSE, FALSE,
       [pc |-> "done", doc |-> NoDoc, wait |-> Awaited("idbSynced", NoDoc),
        cached |-> FALSE, result |-> "ok", retainedAt |-> "never"])
  /\ UNCHANGED <<thoughtVars, lexemeVars, docKeys, heap, storeVars>>

ReplicatedKeys == {"h"}
ReadIds == {"a"}
DeletedKeys == {"h", "a"}

ThoughtNext ==
  \/ \E docKey \in ReplicatedKeys, background, remote \in BOOLEAN :
       replicateChildren(docKey, background, remote)
  \/ \E id \in ReadIds : getThoughtById(id)
  \/ \E docKey \in ReplicatedKeys : freeThought(docKey)
  \/ \E docKey \in DeletedKeys : deleteThought(docKey)
  \/ \E c \in Calls : replicateChildrenCached(c)
  \/ \E c \in Calls : replicateChildrenIDBSynced(c)
  \/ \E c \in Calls : replicateChildrenWebsocketSynced(c)
  \/ \E c \in Calls : replicateChildrenIsThoughtLoaded(c)
  \/ \E c \in Calls : replicateChildrenPromiseAll(c)
  \/ \E c \in Calls : getThoughtByIdReturn(c)
  \/ \E c \in Calls : freeThoughtDeallocate(c)
  \/ \E c \in Calls : deleteThoughtBody(c)
  \/ \E c \in Calls : deleteThoughtFree(c)
  \/ \E c \in Calls : deleteThoughtDeleted(c)
  \/ \E g \in Gens : thoughtIndexeddbSynced(g)
  \/ \E g \in Gens : thoughtRace(g)
  \/ \E g \in Gens : thoughtWebsocketSyncedEvent(g)

\* ------------------------------------------------------------ lexeme codec
\* lexemeKeyToDb and lexemeKeyFromDb (contexts is handled field by field).
lexemeKeyToDb(key) ==
  IF key = "created" THEN "c" ELSE IF key = "lastUpdated" THEN "l" ELSE "u"

lexemeKeyFromDb(field) ==
  IF field = "c" THEN "created" ELSE IF field = "l" THEN "lastUpdated" ELSE "updatedBy"

LexemeKeyNames == {"created", "lastUpdated", "updatedBy"}

\* lexemeMap.get(key): undefined (None) when the map has no such field.
lexemeMapGet(doc, field) == IF field \in LexemeFields(doc) THEN doc[field] ELSE None

\* getLexeme of a non-empty map: every cx-<id> field gives a context, every
\* other field is renamed by lexemeKeyFromDb.
getLexeme(doc) ==
  [contexts |-> LexemeContexts(doc),
   fields |-> [key \in {lexemeKeyFromDb(f) : f \in LexemeFields(doc) \cap LexemeScalars} |->
                 doc[lexemeKeyToDb(key)]]]

\* A faulty variant of updateLexemeMap: an added context whose field the map
\* already holds is taken for a stale one and deleted instead of set.
updateLexemeMapToggle(doc, lexemeNew, contextsOld) ==
  LET added == {CxField(cxid) : cxid \in lexemeNew.contexts \ contextsOld}
      removed == {CxField(cxid) : cxid \in contextsOld \ lexemeNew.contexts}
      written == {lexemeKeyToDb(key) : key \in DOMAIN lexemeNew.fields}
  IN [f \in DOMAIN doc \cup added \cup written |->
        IF f \in written THEN lexemeNew.fields[lexemeKeyFromDb(f)]
        ELSE IF f \in added /\ f \in LexemeFields(doc) THEN Tombstone
        ELSE IF f \in added
          THEN docKeys[CHOOSE cxid \in lexemeNew.contexts : CxField(cxid) = f]
        ELSE IF f \in removed THEN Tombstone
        ELSE doc[f]]

\* The scalar fields on which the transaction calls lexemeMap.set: the keys
\* of lexemeNew whose value differs from lexemeMap.get(key), which is looked
\* up under the name the Lexeme gives the key while the map holds the value
\* under lexemeKeyToDb[key].
lexemeMapSet(doc, lexemeNew) ==
  {lexemeKeyToDb(key) : key \in
     {k \in DOMAIN lexemeNew.fields : lexemeNew.fields[k] # lexemeMapGet(doc, k)}}

\* The transaction of updateLexeme on the map: contexts added since lexemeOld
\* are set to their docKey, contexts of lexemeOld missing from lexemeNew are
\* deleted, and a scalar is set when its value differs from lexemeMap.get(key),
\* looked up under the name the Lexeme gives the key.
updateLexemeMap(doc, lexemeNew, contextsOld) ==
  LET added == {CxField(cxid) : cxid \in lexemeNew.contexts \ contextsOld}
      removed == {CxField(cxid) : cxid \in contextsOld \ lexemeNew.contexts}
      written == lexemeMapSet(doc, lexemeNew)
  IN [f \in DOMAIN doc \cup added \cup written |->
        IF f \in written THEN lexemeNew.fields[lexemeKeyFromDb(f)]
        ELSE IF f \in added
          THEN docKeys[CHOOSE cxid \in lexemeNew.contexts : CxField(cxid) = f]
        ELSE IF f \in removed THEN Tombstone
        ELSE doc[f]]

\* lexemeNew.contexts is an array; its elements as a set.
Range(array) == {array[i] : i \in DOMAIN array}

\* The position in lexemeNew.contexts of the first added context that has no
\* docKey, where the transaction throws; 0 when there is none.
missingDocKey(contexts, contextsOld) ==
  LET missing == {i \in DOMAIN contexts :
                    contexts[i] \notin contextsOld /\ docKeys[contexts[i]] = None}
  IN IF missing = {} THEN 0 ELSE CHOOSE i \in missing : \A j \in missing : i <= j

\* lexemeDoc.transact of updateLexeme. lexemeNew.first are the scalar keys
\* that Object.keys(lexemeNew) gives before 'contexts'. When the transaction
\* throws, what it has set before stays in the map: the scalars enumerated
\* first and the contexts added before the one without a docKey.
updateLexemeTransact(doc, lexemeNew, contextsOld) ==
  LET missing == missingDocKey(lexemeNew.contexts, contextsOld)
      whole == [contexts |-> Range(lexemeNew.contexts), fields |-> lexemeNew.fields]
      part == [contexts |-> contextsOld \cup
                             Range(SubSeq(lexemeNew.contexts, 1, missing - 1)),
               fields |-> [k \in lexemeNew.first |-> lexemeNew.fields[k]]]
  IN IF missing = 0
       THEN [doc |-> updateLexemeMap(doc, whole, contextsOld), threw |-> FALSE,
             set |-> lexemeMapSet(doc, whole)]
       ELSE [doc |-> updateLexemeMap(doc, part, contextsOld), threw |-> TRUE,
             set |-> lexemeMapSet(doc, part)]

\* -------------------------------------------------------- replicateLexeme
\* A faulty variant of tryDeallocateLexeme: the idbSynced promise of the
\* Lexeme stays in its map.
tryDeallocateLexemePromise(key) ==
  IF isRetained(lexemeRetained, key)
    THEN UNCHANGED <<lexemeMaps, heap>>
    ELSE
      /\ heap' = destroyProvider(destroyDoc(heap, lexemeDocs[key]),
                                 lexemeWebsocketProvider[key])
      /\ lexemeDocs' = mapDelete(lexemeDocs, key)
      /\ lexemePersistence' = mapDelete(lexemePersistence, key)
      /\ lexemeIDBSynced' = lexemeIDBSynced
      /\ lexemeWebsocketProvider' = mapDelete(lexemeWebsocketProvider, key)
      /\ lexemeWebsocketSynced' = mapDelete(lexemeWebsocketSynced, key)

tryDeallocateLexeme(key) ==
  IF isRetained(lexemeRetained, key)
    THEN UNCHANGED <<lexemeMaps, heap>>
    ELSE
      /\ heap' = destroyProvider(destroyDoc(heap, lexemeDocs[key]),
                                 lexemeWebsocketProvider[key])
      /\ lexemeDocs' = mapDelete(lexemeDocs, key)
      /\ lexemePersistence' = mapDelete(lexemePersistence, key)
      /\ lexemeIDBSynced' = mapDelete(lexemeIDBSynced, key)
      /\ lexemeWebsocketProvider' = mapDelete(lexemeWebsocketProvider, key)
      /\ lexemeWebsocketSynced' = mapDelete(lexemeWebsocketSynced, key)

\* The call up to its first await.
replicateLexemeStart(key, background) ==
  /\ lexemeRetained' = IF background THEN lexemeRetained ELSE lexemeRetained \cup {key}
  /\ UNCHANGED <<thoughtVars, docKeys, storeVars>>
  /\ IF lexemeDocs[key] # NoDoc
       THEN /\ Issue("replicateLexeme", key, None, background, TRUE,
                 [pc |-> "cached", doc |-> lexemeDocs[key],
                  wait |-> cachedWait(background, TRUE, lexemeIDBSynced[key],
                                      lexemeWebsocketSynced[key]),
                  cached |-> TRUE, result |-> "pending",
                  retainedAt |-> IF background THEN "never" ELSE "call"])
            /\ UNCHANGED <<lexemeMaps, heap>>
       ELSE /\ Len(heap) < MaxGen
            /\ LET g == Len(heap) + 1 IN
                 /\ heap' = Append(heap, NewDoc("lexeme", key, TRUE, EmptyLexemeDoc))
                 /\ lexemeDocs' = mapSet(lexemeDocs, key, g)
                 /\ lexemeIDBSynced' = mapSet(lexemeIDBSynced, key, g)
                 /\ lexemePersistence' = mapSet(lexemePersistence, key, g)
                 /\ lexemeWebsocketSynced' = mapSet(lexemeWebsocketSynced, key, g)
                 /\ lexemeWebsocketProvider' = mapSet(lexemeWebsocketProvider, key, g)
                 /\ Issue("replicateLexeme", key, None, background, TRUE,
                      [pc |-> "idbSynced", doc |-> g, wait |-> Awaited("idbSynced", g),
                       cached |-> FALSE, result |-> "pending",
                       retainedAt |-> IF background THEN "never" ELSE "call"])

\* replicateLexeme called by the application.
replicateLexeme(key, background) ==
  /\ replicateLexemeStart(key, background)
  /\ UNCHANGED replicationVars

\* The value replicateLexeme resolves with.
ResolvedLexeme(call, doc) ==
  [call EXCEPT !.pc = "done",
               !.result = IF HasLexeme(doc.content) THEN "lexeme" ELSE "absent",
               !.nodes = LexemeContexts(doc.content),
               !.remoteSynced = doc.websocket /\ doc.websocketSynced = "synced"]

\* The cached branch after its await.
replicateLexemeCached(c) ==
  /\ c.op = "replicateLexeme" /\ c.pc = "cached"
  /\ Settled(c.wait)
  /\ Continue(c, ResolvedLexeme(c, heap[c.doc]))
  /\ UNCHANGED <<thoughtVars, lexemeVars, docKeys, heap, storeVars>>

\* The end of the uncached branch: set the docKeys of the contexts from the
\* cx fields, tryDeallocateLexeme and return.
replicateLexemeReturn(c) ==
  /\ docKeys' = setContextDocKeys(docKeys, heap[c.doc].content)
  /\ tryDeallocateLexeme(c.key)
  /\ Continue(c, ResolvedLexeme(c, heap[c.doc]))
  /\ UNCHANGED <<thoughtVars, lexemeRetained, storeVars>>

\* After await idbSynced: foreground returns, background awaits websocketSynced.
replicateLexemeIDBSynced(c) ==
  /\ c.op = "replicateLexeme" /\ c.pc = "idbSynced"
  /\ Settled(c.wait)
  /\ IF c.background
       THEN /\ Continue(c, [c EXCEPT !.pc = "websocketSynced"])
            /\ UNCHANGED <<thoughtVars, lexemeVars, docKeys, heap, storeVars>>
       ELSE replicateLexemeReturn(c)

\* After await websocketSynced: isLexemeLoaded is called and awaited.
replicateLexemeWebsocketSynced(c) ==
  /\ c.op = "replicateLexeme" /\ c.pc = "websocketSynced"
  /\ Settled(Awaited("websocketSynced", c.doc))
  /\ Continue(c, [c EXCEPT !.pc = "isLexemeLoaded"])
  /\ UNCHANGED <<thoughtVars, lexemeVars, docKeys, heap, storeVars>>

\* After await isLexemeLoaded: a loaded lexeme is retained and passed to
\* onLexemeChange, which queues it for the application unless the document
\* is empty; then return.
replicateLexemeIsLexemeLoaded(c) ==
  /\ c.op = "replicateLexeme" /\ c.pc = "isLexemeLoaded"
  /\ \E loaded \in BOOLEAN :
       LET call == [c EXCEPT
                      !.loaded = IF loaded THEN {c.key} ELSE {},
                      !.notified = IF foregrounds(loaded) /\ HasLexeme(heap[c.doc].content)
                                     THEN {c.key} ELSE {},
                      !.retainedAt = IF foregrounds(loaded) THEN "loaded" ELSE "never"]
       IN /\ docKeys' = setContextDocKeys(docKeys, heap[c.doc].content)
          /\ IF foregrounds(loaded)
               THEN /\ lexemeRetained' = lexemeRetained \cup {c.key}
                    /\ UNCHANGED <<lexemeMaps, heap>>
               ELSE /\ tryDeallocateLexeme(c.key)
                    /\ UNCHANGED lexemeRetained
          /\ Continue(c, ResolvedLexeme(call, heap[c.doc]))
  /\ UNCHANGED <<thoughtVars, storeVars>>

\* ------------------------------------------- providers of lexeme documents
lexemeIndexeddbSynced(g) ==
  /\ heap[g].kind = "lexeme" /\ heap[g].idb = "pending" /\ ~heap[g].idbDestroyed
  /\ whenSynced(g)
  /\ heap' = [heap EXCEPT ![g].content = MergeLexemeDoc(@, indexeddb[heap[g].key]),
                          ![g].idb = "synced", ![g].idbSynced = "done"]
  /\ UNCHANGED <<thoughtVars, lexemeVars, docKeys>>
  /\ ProviderStep

lexemeWebsocketSyncedEvent(g) ==
  /\ heap[g].kind = "lexeme" /\ heap[g].websocket /\ ~heap[g].websocketDestroyed
  /\ heap[g].websocketSynced = "pending"
  /\ synced(g)
  /\ heap' = [heap EXCEPT ![g].content = MergeLexemeDoc(@, server[heap[g].key]),
                          ![g].websocketSynced = "synced"]
  /\ UNCHANGED <<thoughtVars, lexemeVars, docKeys>>
  /\ ProviderStep

\* -------------------------------------------------- freeLexeme, deleteLexeme
\* freeLexeme up to its await of the cached idbSynced promise.
freeLexemeStart(key) ==
  /\ lexemeRetained' = unretain(lexemeRetained, key)
  /\ Issue("freeLexeme", key, None, FALSE, FALSE,
       [pc |-> "free", doc |-> lexemeDocs[key], wait |-> Awaited("idbSynced", lexemeIDBSynced[key]),
        cached |-> lexemeDocs[key] # NoDoc, result |-> "pending",
        retainedAt |-> "never"])
  /\ UNCHANGED <<lexemeMaps, thoughtVars, docKeys, storeVars>>

\* freeLexeme called by the application.
freeLexeme(key) ==
  /\ freeLexemeStart(key)
  /\ UNCHANGED <<heap, replicationVars>>

freeLexemeDeallocate(c) ==
  /\ c.op = "freeLexeme" /\ c.pc = "free"
  /\ Settled(c.wait)
  /\ tryDeallocateLexeme(c.key)
  /\ Continue(c, [c EXCEPT !.pc = "done",
                           !.result = IF isRetained(lexemeRetained, c.key)
                                        THEN "retained" ELSE "deallocated"])
  /\ UNCHANGED <<lexemeRetained, thoughtVars, docKeys, storeVars>>

\* deleteLexeme up to await config.
deleteLexemeStart(key) ==
  /\ Issue("deleteLexeme", key, None, FALSE, FALSE,
       [pc |-> "config", doc |-> NoDoc, wait |-> Awaited("idbSynced", NoDoc), cached |-> FALSE,
        result |-> "pending", retainedAt |-> "never"])
  /\ UNCHANGED <<thoughtVars, lexemeVars, docKeys, heap, storeVars>>

\* deleteLexeme called by the application.
deleteLexeme(key) ==
  /\ deleteLexemeStart(key)
  /\ UNCHANGED replicationVars

\* The try block of deleteLexeme up to the await of freeLexeme: start
\* clearing the database (clearData destroys the persistence first), and run
\* freeLexeme up to its await.
deleteLexemeTry(c, persistence, h) ==
  /\ heap' = [g \in DOMAIN h |->
                IF g = persistence THEN [h[g] EXCEPT !.idbDestroyed = TRUE] ELSE h[g]]
  /\ lexemeRetained' = unretain(lexemeRetained, c.key)
  /\ Continue(c, [c EXCEPT !.pc = "freeLexeme", !.doc = persistence,
                           !.wait = Awaited("idbSynced", lexemeIDBSynced[c.key])])
  /\ UNCHANGED <<lexemeMaps, thoughtVars, docKeys, storeVars>>

\* deleteLexeme after await config: when the cached document holds a Lexeme,
\* updateLexeme clears its contexts and awaits whenSynced of the cached
\* persistence; otherwise the try block starts.
deleteLexemeBody(c) ==
  /\ c.op = "deleteLexeme" /\ c.pc = "config"
  /\ LET persistence == lexemePersistence[c.key]
         doc == IF lexemeDocs[c.key] # NoDoc THEN lexemeDocs[c.key]
                ELSE IF persistence # NoDoc THEN persistence
                ELSE lexemeWebsocketProvider[c.key]
     IN IF doc # NoDoc /\ lexemeDocs[c.key] # NoDoc /\ HasLexeme(heap[doc].content)
          THEN LET lexemeOld == getLexeme(heap[doc].content)
                   lexemeNew == [lexemeOld EXCEPT !.contexts = {}]
               IN /\ heap' = [heap EXCEPT ![doc].content =
                                updateLexemeMap(@, lexemeNew, lexemeOld.contexts)]
                  /\ indexeddb' = storeUpdate(indexeddb, heap[doc],
                       updateLexemeMap(heap[doc].content, lexemeNew, lexemeOld.contexts))
                  /\ server' = sendUpdate(server, heap[doc],
                       updateLexemeMap(heap[doc].content, lexemeNew, lexemeOld.contexts))
                  /\ Continue(c, [c EXCEPT !.pc = "updateLexeme", !.doc = persistence,
                                           !.wait = Awaited("whenSynced", persistence),
                                           !.cached = TRUE])
                  /\ UNCHANGED <<lexemeVars, thoughtVars, docKeys>>
          ELSE deleteLexemeTry(c, persistence, heap)

\* After await idbSynced in updateLexeme (whenSynced of the persistence).
deleteLexemeUpdated(c) ==
  /\ c.op = "deleteLexeme" /\ c.pc = "updateLexeme"
  /\ Settled(c.wait)
  /\ deleteLexemeTry(c, c.doc, heap)

deleteLexemeFree(c) ==
  /\ c.op = "deleteLexeme" /\ c.pc = "freeLexeme"
  /\ Settled(c.wait)
  /\ tryDeallocateLexeme(c.key)
  /\ Continue(c, [c EXCEPT !.pc = "deleted"])
  /\ UNCHANGED <<lexemeRetained, thoughtVars, docKeys, storeVars>>

deleteLexemeDeleted(c) ==
  /\ c.op = "deleteLexeme" /\ c.pc = "deleted"
  /\ \E purge \in PurgeOutcomes :
       /\ deleteDB(c.key, purge)
       /\ Continue(c, [c EXCEPT !.pc = "done", !.purge = purge,
                                !.result = deleteResult(purge)])
  /\ UNCHANGED <<thoughtVars, lexemeVars, docKeys, heap, server>>

LexemeNext ==
  \/ \E key \in LexemeKeys, background \in BOOLEAN : replicateLexeme(key, background)
  \/ \E key \in LexemeKeys : freeLexeme(key)
  \/ \E key \in LexemeKeys : deleteLexeme(key)
  \/ \E c \in Calls : replicateLexemeCached(c)
  \/ \E c \in Calls : replicateLexemeIDBSynced(c)
  \/ \E c \in Calls : replicateLexemeWebsocketSynced(c)
  \/ \E c \in Calls : replicateLexemeIsLexemeLoaded(c)
  \/ \E c \in Calls : freeLexemeDeallocate(c)
  \/ \E c \in Calls : deleteLexemeBody(c)
  \/ \E c \in Calls : deleteLexemeUpdated(c)
  \/ \E c \in Calls : deleteLexemeFree(c)
  \/ \E c \in Calls : deleteLexemeDeleted(c)
  \/ \E g \in Gens : lexemeIndexeddbSynced(g)
  \/ \E g \in Gens : lexemeWebsocketSyncedEvent(g)

Next == ThoughtNext \/ LexemeNext

Spec == Init /\ [][Next]_vars

\* Timers fire and the continuation of a settled promise runs: the race of the
\* idbSynced chain settles once sleep(WEBSOCKET_TIMEOUT) resolves, and a call
\* awaiting idbSynced continues once it is settled. Nothing obliges a
\* provider to report synced or the application to issue a call.
Fairness ==
  /\ \A g \in 1..MaxGen : WF_vars(g \in Gens /\ thoughtRace(g))
  /\ WF_vars(\E c \in Calls : replicateChildrenIDBSynced(c))

LiveSpec == Init /\ [][Next]_vars /\ Fairness

PeerSpec == PeerInit /\ [][Next]_vars

\* An application that replicates the children of HOME in the foreground
\* twice and, once both calls have resolved, frees HOME once.
RetainNext ==
  \/ \E remote \in BOOLEAN :
       issued < 2 /\ replicateChildren(HOME_TOKEN, FALSE, remote)
  \/ issued = 2 /\ InFlight = EmptyBag /\ freeThought(HOME_TOKEN)
  \/ \E c \in Calls : replicateChildrenCached(c)
  \/ \E c \in Calls : replicateChildrenIDBSynced(c)
  \/ \E c \in Calls : freeThoughtDeallocate(c)
  \/ \E g \in Gens : thoughtIndexeddbSynced(g)
  \/ \E g \in Gens : thoughtRace(g)
  \/ \E g \in Gens : thoughtWebsocketSyncedEvent(g)

RetainSpec == Init /\ [][RetainNext]_vars

\* An application that writes the thought a under HOME and reads the
\* children of HOME in the foreground.
WriteNext ==
  \/ updateThought("a", HOME_TOKEN)
  \/ \E remote \in BOOLEAN : replicateChildren(HOME_TOKEN, FALSE, remote)
  \/ \E c \in Calls : replicateChildrenCached(c)
  \/ \E c \in Calls : replicateChildrenIDBSynced(c)
  \/ \E g \in Gens : thoughtIndexeddbSynced(g)
  \/ \E g \in Gens : thoughtRace(g)
  \/ \E g \in Gens : thoughtWebsocketSyncedEvent(g)

WriteSpec == Init /\ [][WriteNext]_vars

\* ------------------------------------------- updateLexeme on two devices
\* Two devices hold the document of the Lexeme w in memory, replicated from
\* the same stored document, and the same docKeys. Each runs one updateLexeme
\* transaction, which the application may repeat with the same arguments, and
\* the providers carry the updates of a device to the other.
Devices == {1, 2}
Other(device) == 3 - device

\* The thought ids that the Lexemes of the application hold as contexts.
ContextIds == {"a", "b", "acx-b"}

ContextArrays ==
  {array \in UNION {[1..n -> ContextIds] : n \in 0..Cardinality(ContextIds)} :
     \A i, j \in DOMAIN array : array[i] = array[j] => i = j}

KeyOrders == {{}, LexemeKeyNames}

\* The contexts of lexemeOld: none (a new Lexeme), those of the stored
\* Lexeme, and one more.
OldContexts == {{}, {"a"}, {"a", "b"}}

LexemesNew ==
  {[contexts |-> array,
    fields |-> [key \in LexemeKeyNames |-> IF key = "updatedBy" THEN "me" ELSE "t2"],
    first |-> first] : array \in ContextArrays, first \in KeyOrders}

\* docKeys with an entry for every thought, and without one for b.
DocKeyIndexes ==
  {[x \in ThoughtIds |->
      IF x = HOME_TOKEN THEN ROOT_PARENT_ID
      ELSE IF x = "b" THEN (IF known THEN "a" ELSE None)
      ELSE HOME_TOKEN] : known \in BOOLEAN}

NoWrite == [times |-> 0]

UpdateInit ==
  /\ InitMaps
  /\ indexeddb = EmptyStore
  /\ server = EmptyStore
  /\ doclog = <<>>
  /\ appended = <<>>
  /\ docKeys \in DocKeyIndexes
  /\ \E doc \in {EmptyLexemeDoc, StoredLexemeDoc} : replicas = [d \in Devices |-> doc]
  /\ writes = [d \in Devices |-> NoWrite]

UpdateUnchanged ==
  UNCHANGED <<thoughtVars, lexemeVars, docKeys, storeVars, logVars, heap, calls,
              issued, resolved, replicationVars, auth, blocks>>

\* updateLexeme(key, lexemeNew, lexemeOld) on a device whose document of key
\* is in memory. The Lexeme of the application state, lexemeOld, is the same
\* on the two devices.
updateLexeme(device, lexemeNew, contextsOld) ==
  /\ writes[device].times = 0
  /\ writes[Other(device)].times > 0 => contextsOld = writes[Other(device)].contextsOld
  /\ LET transaction == updateLexemeTransact(replicas[device], lexemeNew, contextsOld)
     IN /\ replicas' = [replicas EXCEPT ![device] = transaction.doc]
        /\ writes' = [writes EXCEPT ![device] =
                        [times |-> 1, lexemeNew |-> lexemeNew, contextsOld |-> contextsOld,
                         before |-> replicas[device], after |-> transaction.doc,
                         threw |-> transaction.threw, set |-> transaction.set,
                         received |-> FALSE]]
  /\ UpdateUnchanged

\* The same call once more, before the device has received an update.
updateLexemeAgain(device) ==
  /\ writes[device].times = 1
  /\ ~writes[device].received
  /\ LET write == writes[device]
         transaction == updateLexemeTransact(replicas[device], write.lexemeNew,
                                             write.contextsOld)
     IN replicas' = [replicas EXCEPT ![device] = transaction.doc]
  /\ writes' = [writes EXCEPT ![device].times = 2]
  /\ UpdateUnchanged

\* The providers of the device apply the updates of the other device, which
\* has run its transaction.
receiveUpdate(device) ==
  /\ writes[device].times > 0
  /\ writes[Other(device)].times > 0
  /\ ~writes[device].received
  /\ replicas' = [replicas EXCEPT ![device] = MergeLexemeDoc(@, replicas[Other(device)])]
  /\ writes' = [writes EXCEPT ![device].received = TRUE]
  /\ UpdateUnchanged

UpdateNext ==
  \/ \E device \in Devices, lexemeNew \in LexemesNew, contextsOld \in OldContexts :
       updateLexeme(device, lexemeNew, contextsOld)
  \/ \E device \in Devices : updateLexemeAgain(device)
  \/ \E device \in Devices : receiveUpdate(device)

UpdateSpec == UpdateInit /\ [][UpdateNext]_vars

\* ------------------------------------------------- updateThoughts, doclog
\* updateThoughts returns Promise.resolve() in its first statement: nothing
\* is queued and replication.log is not called.
updateThoughts ==
  /\ Calling("updateThoughts", None, None, FALSE, FALSE,
       [pc |-> "done", doc |-> NoDoc, wait |-> Awaited("idbSynced", NoDoc),
        cached |-> FALSE, result |-> "ok", retainedAt |-> "never"])
  /\ UNCHANGED <<thoughtVars, lexemeVars, docKeys, heap, storeVars>>

\* The entries that updateThoughts builds for replication.log: the parent id
\* of an updated thought or the id of a deleted one, and the key of a Lexeme.
LogTargets == {"a", "b"}
LogEntries ==
  {LogEntry(id, type, action) :
     id \in LogTargets, type \in {"thought", "lexeme"}, action \in {"Update", "Delete"}}

\* Whether appending the entry drops the last entry of the log: the entry is
\* an update of the target of the immediately preceding entry.
compacts(log, entry) ==
  /\ log # <<>>
  /\ entry.action = "Update"
  /\ log[Len(log)].id = entry.id
  /\ log[Len(log)].type = entry.type

\* A faulty variant of logAppend: the entry is appended, nothing is dropped.
logAppendAll(log, entry) == Append(log, entry)

\* The log after an entry is appended.
logAppend(log, entry) ==
  IF compacts(log, entry)
    THEN Append(SubSeq(log, 1, Len(log) - 1), entry)
    ELSE Append(log, entry)

\* replication.log of one entry; the entries of a call are appended in order.
log(entry) ==
  /\ Len(appended) < MaxLog
  /\ doclog' = logAppend(doclog, entry)
  /\ appended' = Append(appended, entry)
  /\ UNCHANGED <<thoughtVars, lexemeVars, docKeys, storeVars, heap, calls, issued,
                 resolved, writeVars, auth, blocks, replicationVars>>

LogNext ==
  \/ updateThoughts
  \/ \E entry \in LogEntries : log(entry)

\* A device with empty storage tiers and an empty doclog.
LogInit ==
  /\ InitCaches
  /\ indexeddb = EmptyStore
  /\ server = EmptyStore
  /\ doclog = <<>>
  /\ appended = <<>>

LogSpec == LogInit /\ [][LogNext]_vars

\* ------------------------------------- failures of the local database
\* What persistence.whenSynced can reject with.
IdbErrors == {"AbortError", "UnknownError"}

\* A faulty variant of isAbortError: no error is taken for an AbortError.
isAbortErrorNever(e) == FALSE

\* e.name === 'AbortError' || e.message.includes('[AbortError]')
isAbortError(e) == e = "AbortError"

\* The replicate call the catch handler was created in: the one that
\* created the document g. Its options are what the handler closes over.
Creators(g) == {c \in DOMAIN InFlight : c.doc = g /\ ~c.cached}

Retry(g, c) ==
  [kind |-> heap[g].kind, key |-> heap[g].key, background |-> c.background,
   remote |-> c.remote]

\* persistence.whenSynced rejects with e and the catch handler of the
\* idbSynced chain runs: on an AbortError free the key
\* and set the timer of a new replicate with the options of the call,
\* otherwise report the error through onError. Either way the handler
\* returns, so the idbSynced promise is fulfilled.
idbSyncedCatch(g, e) ==
  /\ heap[g].idb = "pending" /\ ~heap[g].idbDestroyed
  /\ heap' = [heap EXCEPT ![g].idb = e, ![g].idbSynced = "done"]
  /\ \E c \in Creators(g) :
       IF isAbortError(e)
         THEN /\ idbErrors' = [idbErrors EXCEPT !.timers = Append(@, Retry(g, c)),
                                                !.aborted = Append(@, Retry(g, c))]
              /\ IF heap[g].kind = "thought"
                   THEN freeThoughtStart(heap[g].key)
                   ELSE freeLexemeStart(heap[g].key)
         ELSE /\ idbErrors' = [idbErrors EXCEPT !.onError = Append(@, Retry(g, c))]
              /\ calls' = InFlight
              /\ UNCHANGED <<thoughtVars, lexemeVars, docKeys, storeVars, logVars,
                             issued, resolved, writeVars, auth, blocks>>
  /\ UNCHANGED <<controller, batcher>>

\* Whether a continuation of free is due: it runs before any timer.
freeDue(key) ==
  \E c \in DOMAIN InFlight :
    c.op \in {"freeThought", "freeLexeme"} /\ c.key = key /\ Settled(c.wait)

\* The timer set by the catch handler fires after IDB_ERROR_RETRY: the key
\* is replicated again.
idbErrorRetry ==
  /\ idbErrors.timers # <<>>
  /\ LET r == Head(idbErrors.timers) IN
       /\ ~freeDue(r.key)
       /\ idbErrors' = [idbErrors EXCEPT !.timers = Tail(@), !.retried = Append(@, r)]
       /\ IF r.kind = "thought"
            THEN replicateChildrenStart("replicateChildren", None, r.key,
                                        r.background, r.remote)
            ELSE replicateLexemeStart(r.key, r.background)
  /\ UNCHANGED <<controller, batcher>>

\* An application that replicates the children of HOME and the Lexeme w
\* while the local database fails.
AbortNext ==
  \/ \E background, remote \in BOOLEAN : replicateChildren(HOME_TOKEN, background, remote)
  \/ \E background \in BOOLEAN : replicateLexeme("w", background)
  \/ \E g \in Gens, e \in IdbErrors : idbSyncedCatch(g, e)
  \/ idbErrorRetry
  \/ \E c \in Calls : replicateChildrenCached(c)
  \/ \E c \in Calls : replicateChildrenIDBSynced(c)
  \/ \E c \in Calls : replicateChildrenWebsocketSynced(c)
  \/ \E c \in Calls : replicateChildrenIsThoughtLoaded(c)
  \/ \E c \in Calls : replicateChildrenPromiseAll(c)
  \/ \E c \in Calls : freeThoughtDeallocate(c)
  \/ \E g \in Gens : thoughtIndexeddbSynced(g)
  \/ \E g \in Gens : thoughtRace(g)
  \/ \E g \in Gens : thoughtWebsocketSyncedEvent(g)
  \/ \E c \in Calls : replicateLexemeCached(c)
  \/ \E c \in Calls : replicateLexemeIDBSynced(c)
  \/ \E c \in Calls : replicateLexemeWebsocketSynced(c)
  \/ \E c \in Calls : replicateLexemeIsLexemeLoaded(c)
  \/ \E c \in Calls : freeLexemeDeallocate(c)
  \/ \E g \in Gens : lexemeIndexeddbSynced(g)
  \/ \E g \in Gens : lexemeWebsocketSyncedEvent(g)

AbortSpec == Init /\ [][AbortNext]_vars

\* ----------------------------------------------- replication of the doclog
\* Number of entries of the doclog the controller is given to replay.
MaxEntries == 2

ReplayEntries ==
  {LogEntry(HOME_TOKEN, "thought", "Update"), LogEntry("w", "lexeme", "Update"),
   LogEntry("a", "thought", "Delete"), LogEntry("w", "lexeme", "Delete"),
   LogEntry("a", "thought", "Unknown")}

ReplayLogs == UNION {[1..n -> ReplayEntries] : n \in 1..MaxEntries}

\* Whether next throws for the entry.
UnknownDocLogAction(entry) == entry.action \notin {"Update", "Delete"}

\* The explicit null of the entry's target, as a batch of the batcher.
nullUpdate(entry) == Batch(entry.type, entry.id, FALSE, Len(batcher.submitted) + 1)

\* A faulty variant of next: a delete does not tell the batcher.
nextSilent(entry) ==
  IF entry.action = "Update"
    THEN /\ batcher' = batcher
         /\ IF entry.type = "thought"
              THEN replicateChildrenStart("replicateChildren", None, entry.id, TRUE, TRUE)
              ELSE replicateLexemeStart(entry.id, TRUE)
  ELSE IF entry.action = "Delete"
    THEN /\ batcher' = batcher
         /\ IF entry.type = "thought"
              THEN deleteThoughtStart(entry.id)
              ELSE deleteLexemeStart(entry.id)
  ELSE /\ UNCHANGED <<thoughtVars, lexemeVars, docKeys, storeVars, logVars, heap,
                      calls, issued, resolved, writeVars, auth, blocks, batcher>>

\* The next callback of the controller, up to its await: an update
\* replicates the target in the background, a delete hands the null of the
\* target to updateThoughtsThrottled and calls the delete of its type, any
\* other action throws.
next(entry) ==
  IF entry.action = "Update"
    THEN /\ batcher' = batcher
         /\ IF entry.type = "thought"
              THEN replicateChildrenStart("replicateChildren", None, entry.id, TRUE, TRUE)
              ELSE replicateLexemeStart(entry.id, TRUE)
  ELSE IF entry.action = "Delete"
    THEN /\ batcher' = throttle(batcher, nullUpdate(entry))
         /\ IF entry.type = "thought"
              THEN deleteThoughtStart(entry.id)
              ELSE deleteLexemeStart(entry.id)
  ELSE /\ UNCHANGED <<thoughtVars, lexemeVars, docKeys, storeVars, logVars, heap,
                      calls, issued, resolved, writeVars, auth, blocks, batcher>>

\* A faulty variant of stepSettled: the controller does not wait.
stepSettledEarly == TRUE

\* Whether the promise next returned has settled: the one call it awaits is
\* no longer in flight.
stepSettled == InFlight = EmptyBag

\* The controller, running and between two steps, hands the first entry
\* after the watermark to next. A step that throws fails at once: the entry
\* is recorded as failed and the controller goes on with the entry after it.
replicationStep ==
  /\ ~controller.paused
  /\ controller.step = 0
  /\ controller.index < Len(doclog)
  /\ LET i == controller.index + 1 IN
       /\ next(doclog[i])
       /\ UNCHANGED idbErrors
       /\ controller' =
            IF UnknownDocLogAction(doclog[i])
              THEN [controller EXCEPT !.dispatched = Append(@, i),
                                      !.errors = @ \cup {i}, !.index = i]
              ELSE [controller EXCEPT !.dispatched = Append(@, i), !.step = i]

ReplicationUnchanged ==
  UNCHANGED <<thoughtVars, lexemeVars, docKeys, storeVars, logVars, heap, calls,
              issued, resolved, writeVars, auth, blocks>>

\* The promise of the step has settled: the watermark moves past the entry.
replicationStepEnd ==
  /\ controller.step # 0
  /\ stepSettled
  /\ controller' = [controller EXCEPT !.index = controller.step, !.step = 0]
  /\ UNCHANGED <<batcher, idbErrors>>
  /\ ReplicationUnchanged

\* replication.start(): the controller runs.
start ==
  /\ controller' = [controller EXCEPT !.paused = FALSE, !.started = TRUE,
                                      !.last = "start", !.before = controller.last]
  /\ UNCHANGED <<batcher, idbErrors>>
  /\ ReplicationUnchanged

\* pauseReplication: replication.pause(). The step in progress goes on.
pauseReplication ==
  /\ controller' = [controller EXCEPT !.paused = TRUE, !.last = "pauseReplication",
                                      !.before = controller.last]
  /\ UNCHANGED <<batcher, idbErrors>>
  /\ ReplicationUnchanged

\* startReplication: its body is commented out, the controller is not touched.
startReplication ==
  /\ controller' = [controller EXCEPT !.last = "startReplication",
                                      !.before = controller.last]
  /\ UNCHANGED <<batcher, idbErrors>>
  /\ ReplicationUnchanged

\* The window of the batcher closes.
throttleWait ==
  /\ batcher.open
  /\ batcher' = trailingEdge(batcher)
  /\ UNCHANGED <<controller, idbErrors>>
  /\ ReplicationUnchanged

\* A timer set by the callback of the batcher fires.
setTimeoutFires ==
  /\ batcher.timers # <<>>
  /\ batcher' = onUpdateThoughts(batcher)
  /\ UNCHANGED <<controller, idbErrors>>
  /\ ReplicationUnchanged

ControllerNext ==
  \/ start
  \/ pauseReplication
  \/ startReplication
  \/ replicationStep
  \/ replicationStepEnd
  \/ throttleWait
  \/ setTimeoutFires
  \/ \E c \in Calls : replicateChildrenCached(c)
  \/ \E c \in Calls : replicateChildrenIDBSynced(c)
  \/ \E c \in Calls : replicateChildrenWebsocketSynced(c)
  \/ \E c \in Calls : replicateChildrenIsThoughtLoaded(c)
  \/ \E c \in Calls : replicateChildrenPromiseAll(c)
  \/ \E c \in Calls : deleteThoughtBody(c)
  \/ \E c \in Calls : deleteThoughtFree(c)
  \/ \E c \in Calls : deleteThoughtDeleted(c)
  \/ \E g \in Gens : thoughtIndexeddbSynced(g)
  \/ \E g \in Gens : thoughtRace(g)
  \/ \E g \in Gens : thoughtWebsocketSyncedEvent(g)
  \/ \E c \in Calls : replicateLexemeCached(c)
  \/ \E c \in Calls : replicateLexemeIDBSynced(c)
  \/ \E c \in Calls : replicateLexemeWebsocketSynced(c)
  \/ \E c \in Calls : replicateLexemeIsLexemeLoaded(c)
  \/ \E c \in Calls : deleteLexemeBody(c)
  \/ \E c \in Calls : deleteLexemeUpdated(c)
  \/ \E c \in Calls : deleteLexemeFree(c)
  \/ \E c \in Calls : deleteLexemeDeleted(c)
  \/ \E g \in Gens : lexemeIndexeddbSynced(g)
  \/ \E g \in Gens : lexemeWebsocketSyncedEvent(g)

\* A device whose doclog holds entries other devices appended.
ControllerInit ==
  /\ InitCaches
  /\ indexeddb \in {EmptyStore, FullStore}
  /\ server = FullStore
  /\ doclog \in ReplayLogs
  /\ appended = <<>>

ControllerSpec == ControllerInit /\ [][ControllerNext]_vars

\* ---------------------------------------------- batches of the application
\* Number of calls of updateThoughtsThrottled in one behaviour.
MaxSubmits == 3

\* The batches the code hands over: the Lexeme w or its null, the null of
\* the thought a.
Batches == {<<"lexeme", "w", TRUE>>, <<"lexeme", "w", FALSE>>, <<"thought", "a", FALSE>>}

\* updateThoughtsThrottled(batch): onLexemeChange hands it the Lexeme of a
\* document that changed, next the null of a deleted thought or lexeme.
updateThoughtsThrottled(type, id, live) ==
  /\ Len(batcher.submitted) < MaxSubmits
  /\ batcher' = throttle(batcher, Batch(type, id, live, Len(batcher.submitted) + 1))
  /\ UNCHANGED <<controller, idbErrors>>
  /\ ReplicationUnchanged

BatchNext ==
  \/ \E b \in Batches : updateThoughtsThrottled(b[1], b[2], b[3])
  \/ throttleWait
  \/ setTimeoutFires

BatchSpec == LogInit /\ [][BatchNext]_vars

\* ------------------------------------------------- authenticate requests
AuthUnchanged ==
  UNCHANGED <<thoughtVars, lexemeVars, docKeys, storeVars, logVars, heap, calls,
              issued, resolved, writeVars, replicationVars, blocks>>

\* What authenticate returns for a document that has permissions:
\* docPermissions[accessToken] === 'owner'
authenticateResult(docPermissions, accessToken) == docPermissions = accessToken

\* authenticate(accessToken, docid). The update handler that stores the
\* change of the Y.Doc is registered once the permissions are loaded.
authenticate(accessToken, docid) ==
  /\ LET docPermissions == auth.yPermissions[docid]
         first == IF auth.owner[docid] = None THEN accessToken ELSE auth.owner[docid]
     IN IF docPermissions = None
          THEN auth' = [auth EXCEPT
                          !.yPermissions[docid] = accessToken,
                          !.ldb[docid] = IF auth.loaded THEN accessToken ELSE @,
                          !.owner[docid] = first,
                          !.last = [accessToken |-> accessToken, docid |-> docid,
                                    result |-> TRUE]]
          ELSE auth' = [auth EXCEPT
                          !.owner[docid] = first,
                          !.last = [accessToken |-> accessToken, docid |-> docid,
                                    result |-> authenticateResult(docPermissions,
                                                                  accessToken)]]
  /\ AuthUnchanged

\* The merge of the stored permissions into the Y.Doc. A document that both
\* hold was set by two clients that did not know of each other: the map keeps
\* the value of one of them, by the order of their client ids.
MergedPermissions ==
  {m \in [Docids -> AccessTokens \cup {None}] :
     \A d \in Docids :
       m[d] \in IF auth.yPermissions[d] = None THEN {auth.ldb[d]}
               ELSE IF auth.ldb[d] = None THEN {auth.yPermissions[d]}
               ELSE {auth.yPermissions[d], auth.ldb[d]}}

\* ldb.getYDoc has resolved: the state of the Y.Doc is stored, the stored
\* permissions are applied to the Y.Doc, the update handler is registered.
permissionsLoaded ==
  /\ ~auth.loaded
  /\ \E m \in MergedPermissions :
       auth' = [auth EXCEPT !.yPermissions = m, !.ldb = m, !.loaded = TRUE]
  /\ AuthUnchanged

\* The server process is stopped and started again, its permissions loaded.
serverRestart ==
  /\ auth.loaded
  /\ auth' = [auth EXCEPT !.yPermissions = NoPermissions, !.loaded = FALSE]
  /\ AuthUnchanged

AuthNext ==
  \/ \E accessToken \in AccessTokens, docid \in Docids : authenticate(accessToken, docid)
  \/ permissionsLoaded
  \/ serverRestart

AuthSpec == LogInit /\ [][AuthNext]_vars

\* -------------------------------------------------- init and the doclog
\* Number of blocks the local database or the server holds for the doclog
\* when init is called.
MaxBlocks == 2

\* A subdocument of the 'blocks' array: where it comes from (the local
\* database, the server, or init itself) and whether the 'subdocs' handler
\* has bound it to its providers.
Block(origin) == [origin |-> origin, persistence |-> "pending", provider |-> FALSE]

BlockUnchanged ==
  UNCHANGED <<thoughtVars, lexemeVars, docKeys, storeVars, logVars, heap, calls,
              issued, resolved, writeVars, replicationVars, auth>>

\* init up to the end of its synchronous part: the doclog document is created
\* empty and its IndexeddbPersistence starts loading. stored are the blocks a
\* previous session left in the local database, remote the ones other devices
\* have pushed to the server.
init(tsidShared, stored, remote) ==
  /\ ~blocks.called
  /\ blocks' = [NoInit EXCEPT !.called = TRUE, !.tsidShared = tsidShared,
                              !.stored = stored, !.remote = remote]
  /\ BlockUnchanged

\* The local database has been read into the doclog: the stored blocks are in
\* the array and doclogPersistence.whenSynced is resolved.
doclogPersistenceSynced ==
  /\ blocks.called
  /\ blocks.whenSynced = "pending"
  /\ blocks' = [blocks EXCEPT !.whenSynced = "resolved",
                              !.array = @ \o [i \in 1..blocks.stored |-> Block("idb")]]
  /\ BlockUnchanged

\* doclogPersistence.whenSynced rejects and the catch handler reports it.
doclogPersistenceCatch ==
  /\ blocks.called
  /\ blocks.whenSynced = "pending"
  /\ blocks' = [blocks EXCEPT !.whenSynced = "rejected",
                              !.onError = Append(@, "Error loading doclog")]
  /\ BlockUnchanged

\* A faulty variant of doclogPersistenceThen: the starting block is created
\* whenever the array is empty, on a shared thoughtspace too.
doclogPersistenceThenShared ==
  /\ blocks.whenSynced = "resolved"
  /\ blocks' = [blocks EXCEPT !.whenSynced = "then",
                              !.array = IF Len(@) = 0 THEN <<Block("init")>> ELSE @,
                              !.provider = TRUE]
  /\ BlockUnchanged

\* The then handler of doclogPersistence.whenSynced: the starting block is
\* pushed when the array is empty and the thoughtspace is not shared from
\* another device, and the HocuspocusProvider of the doclog is created.
doclogPersistenceThen ==
  /\ blocks.whenSynced = "resolved"
  /\ blocks' = [blocks EXCEPT !.whenSynced = "then",
                              !.array = IF Len(@) = 0 /\ ~blocks.tsidShared
                                          THEN <<Block("init")>> ELSE @,
                              !.provider = TRUE]
  /\ BlockUnchanged

\* The provider of the doclog delivers a block that another device pushed.
\* (The websocket is constructed with connect: false; the step is what a
\* connected websocket does.)
doclogReceived ==
  /\ blocks.provider
  /\ blocks.received < blocks.remote
  /\ blocks' = [blocks EXCEPT !.received = @ + 1, !.array = Append(@, Block("remote"))]
  /\ BlockUnchanged

\* The 'subdocs' handler on a loaded block: its IndexeddbPersistence syncs and
\* the then handler creates the HocuspocusProvider of the block.
subdocsLoaded(i) ==
  /\ i \in DOMAIN blocks.array
  /\ blocks.array[i].persistence = "pending"
  /\ blocks' = [blocks EXCEPT !.array[i].persistence = "synced",
                              !.array[i].provider = TRUE]
  /\ BlockUnchanged

\* The persistence of a loaded block rejects and the catch handler reports it.
subdocsCatch(i) ==
  /\ i \in DOMAIN blocks.array
  /\ blocks.array[i].persistence = "pending"
  /\ blocks' = [blocks EXCEPT !.array[i].persistence = "rejected",
                              !.onError = Append(@, "Error loading doclog block")]
  /\ BlockUnchanged

BlockNext ==
  \/ \E tsidShared \in BOOLEAN, stored \in 0..MaxBlocks, remote \in 0..MaxBlocks :
       init(tsidShared, stored, remote)
  \/ doclogPersistenceSynced
  \/ doclogPersistenceCatch
  \/ doclogPersistenceThen
  \/ doclogReceived
  \/ \E i \in 1..(2 * MaxBlocks + 1) : subdocsLoaded(i)
  \/ \E i \in 1..(2 * MaxBlocks + 1) : subdocsCatch(i)

BlockSpec == LogInit /\ [][BlockNext]_vars

\* ------------------------------------------------------------- properties
IsReplicate(c) == IsReplicateThought(c) \/ c.op = "replicateLexeme"

KindOf(c) ==
  IF c.op \in {"replicateLexeme", "freeLexeme", "deleteLexeme"} THEN "lexeme"
  ELSE "thought"

DocsOf(kind) == IF kind = "thought" THEN thoughtDocs ELSE lexemeDocs

RetainedOf(kind) == IF kind = "thought" THEN thoughtRetained ELSE lexemeRetained

\* The key is in none of the five cache maps of its kind.
Purged(kind, key) ==
  IF kind = "thought"
    THEN /\ thoughtDocs[key] = NoDoc /\ thoughtPersistence[key] = NoDoc
         /\ thoughtIDBSynced[key] = NoDoc /\ thoughtWebsocketProvider[key] = NoDoc
         /\ thoughtWebsocketSynced[key] = NoDoc
    ELSE /\ lexemeDocs[key] = NoDoc /\ lexemePersistence[key] = NoDoc
         /\ lexemeIDBSynced[key] = NoDoc /\ lexemeWebsocketProvider[key] = NoDoc
         /\ lexemeWebsocketSynced[key] = NoDoc

\* The five cache maps of a kind hold the same document for a key, the two
\* websocket maps only when the document has a provider.
CachedTogether(kind, key) ==
  LET g == DocsOf(kind)[key] IN
    IF kind = "thought"
      THEN /\ thoughtPersistence[key] = g /\ thoughtIDBSynced[key] = g
           /\ thoughtWebsocketProvider[key] = thoughtWebsocketSynced[key]
           /\ thoughtWebsocketProvider[key] =
                IF g = NoDoc THEN NoDoc ELSE IF heap[g].websocket THEN g ELSE NoDoc
      ELSE /\ lexemePersistence[key] = g /\ lexemeIDBSynced[key] = g
           /\ lexemeWebsocketProvider[key] = g /\ lexemeWebsocketSynced[key] = g

\* The positions of a replicate call between its first await and its return.
ReplicatePcs == {"cached", "idbSynced", "websocketSynced", "isThoughtLoaded",
                 "isLexemeLoaded", "promiseAll"}

\* The replicate part of the call has just resolved.
ReplicateResolved(c) ==
  \/ c.op \in {"replicateChildren", "replicateLexeme"} /\ c.pc = "done"
  \/ c.op = "getThoughtById" /\ c.pc = "getThought"

\* The record call is the state of a call after the step being taken.
Stepped(call) == CopiesIn(call, calls') > CopiesIn(call, InFlight)

\* C1: replicate calls of one key that run concurrently share one document
\* and one pair of providers: every document that is not destroyed is the one
\* the caches hold for its key, all five caches hold that same document, and
\* a call that found the key cached holds the cached document and awaits a
\* promise of that document.
C1_DedupConcurrentReplication ==
  /\ \A g \in Gens :
       ~heap[g].destroyed => DocsOf(heap[g].kind)[heap[g].key] = g
  /\ \A key \in ThoughtKeys : CachedTogether("thought", key)
  /\ \A key \in LexemeKeys : CachedTogether("lexeme", key)
  /\ \A c \in DOMAIN calls :
       (IsReplicate(c) /\ c.pc \in ReplicatePcs /\ c.cached) =>
         /\ c.doc \in Gens
         /\ heap[c.doc].kind = KindOf(c) /\ heap[c.doc].key = c.key
         /\ c.wait.doc \in {NoDoc, c.doc}
  /\ \A c1, c2 \in DOMAIN calls :
       (/\ IsReplicate(c1) /\ IsReplicate(c2)
        /\ KindOf(c1) = KindOf(c2) /\ c1.key = c2.key
        /\ c1.pc \in ReplicatePcs /\ c2.pc \in ReplicatePcs
        /\ ~heap[c1.doc].destroyed /\ ~heap[c2.doc].destroyed)
         => c1.doc = c2.doc

\* Two replicate calls of one key are in flight before the local sync of the
\* only document created: the first created it, the second found it cached.
C1_Witness ==
  \E c1, c2 \in DOMAIN calls :
    /\ IsReplicate(c1) /\ IsReplicate(c2) /\ c1.key = c2.key
    /\ c1.pc = "idbSynced" /\ ~c1.cached
    /\ c2.pc = "cached" /\ c2.cached
    /\ c1.doc = c2.doc /\ Len(heap) = 1 /\ heap[c1.doc].idb = "pending"

\* The step being taken is the one in which the free of the pending call c
\* (freeThought / freeLexeme, called by the application or by a delete) runs
\* its tryDeallocate.
Teardown(c) ==
  \/ /\ c.op \in {"freeThought", "freeLexeme"} /\ c.pc = "free"
     /\ \E result \in {"retained", "deallocated"} :
          Stepped([c EXCEPT !.pc = "done", !.result = result])
  \/ /\ c.op \in {"deleteThought", "deleteLexeme"}
     /\ c.pc \in {"freeThought", "freeLexeme"}
     /\ Stepped([c EXCEPT !.pc = "deleted"])

\* C2: when the teardown step of a free runs while the key is retained again,
\* the step destroys nothing and leaves every cache as it is; and a document
\* is created only for a key that is not resident, so that a later read of a
\* resident key uses the document the caches hold.
C2_RetentionSafety ==
  [][/\ \A c \in DOMAIN calls :
          (Teardown(c) /\ c.key \in RetainedOf(KindOf(c))) =>
            UNCHANGED <<thoughtMaps, lexemeMaps, heap>>
     /\ Len(heap') > Len(heap) =>
          DocsOf(heap'[Len(heap')].kind)[heap'[Len(heap')].key] = NoDoc
     /\ \A c \in DOMAIN calls' :
          (IsReplicate(c) /\ c.pc = "cached" /\ Stepped(c)) =>
            /\ c.doc = DocsOf(KindOf(c))[c.key]
            /\ c.doc = DocsOf(KindOf(c))'[c.key]
            /\ heap' = heap]_vars

\* A free that was called while the document was cached has run its teardown
\* after a foreground replicate of the key, still in flight, retained the key
\* again: the document is still cached and not destroyed.
C2_Witness ==
  \E c \in DOMAIN calls :
    /\ c.op \in {"freeThought", "freeLexeme"} /\ c.pc = "done"
    /\ c.result = "retained" /\ c.doc # NoDoc
    /\ DocsOf(KindOf(c))[c.key] = c.doc
    /\ ~heap[c.doc].destroyed /\ ~heap[c.doc].websocketDestroyed
    /\ \E read \in DOMAIN calls :
         /\ IsReplicate(read) /\ ~read.background /\ read.pc = "cached"
         /\ KindOf(read) = KindOf(c) /\ read.key = c.key /\ read.doc = c.doc

\* C3: when a free has resolved and its key is not retained, the key is in
\* none of the five cache maps of its kind, and every document created for
\* the key is destroyed together with its persistence and its websocket
\* provider.
C3_FreeDeallocates ==
  \A c \in DOMAIN calls :
    (/\ c.op \in {"freeThought", "freeLexeme"} /\ c.pc = "done"
     /\ c.key \notin RetainedOf(KindOf(c))) =>
      /\ Purged(KindOf(c), c.key)
      /\ \A g \in Gens :
           (heap[g].kind = KindOf(c) /\ heap[g].key = c.key) =>
             /\ heap[g].destroyed /\ heap[g].idbDestroyed
             /\ heap[g].websocket => heap[g].websocketDestroyed

\* A free called on a cached document with a websocket provider has resolved
\* with its key not retained.
C3_Witness ==
  \E c \in DOMAIN calls :
    /\ c.op \in {"freeThought", "freeLexeme"} /\ c.pc = "done"
    /\ c.key \notin RetainedOf(KindOf(c))
    /\ c.doc # NoDoc /\ heap[c.doc].websocket /\ heap[c.doc].destroyed

\* C4: the websocket provider of a document exists only once the local sync
\* (persistence.whenSynced) of the document has completed.
C4_RemoteOpenedAfterLocalSync ==
  \A g \in Gens :
    (heap[g].websocket /\ ~heap[g].websocketDestroyed) => heap[g].idb = "synced"

\* The foreground replicate call that created the thought document g awaits
\* idbSynced, and the local sync of g has completed.
ForegroundPending(g) ==
  /\ g \in Gens
  /\ heap[g].kind = "thought" /\ heap[g].idb = "synced"
  /\ \E c \in DOMAIN calls :
       /\ IsReplicateThought(c) /\ ~c.background /\ ~c.cached
       /\ c.doc = g /\ c.pc = "idbSynced"

\* A foreground replicateChildren call that created its document returns once
\* the idbSynced chain is settled, and returns absent exactly when the document
\* then holds no content.
ForegroundResolved ==
  \A c \in DOMAIN calls :
    (c.op = "replicateChildren" /\ c.pc = "done" /\ ~c.background /\ ~c.cached) =>
      /\ heap[c.doc].idbSynced = "done"
      /\ c.result = "absent" <=> ~HasChildren(heap[c.doc].content)

C6_CachedWaitsForRemote ==
  \A c \in DOMAIN calls :
    (IsReplicate(c) /\ ReplicateResolved(c) /\ c.cached /\ c.remote) => c.remoteSynced

\* C6: a replicate call that found the document cached awaits the cached
\* websocketSynced promise when background and remote are both true, and
\* then does not resolve before the websocket provider of the document has
\* synced; in every other case it awaits the cached idbSynced promise, and
\* resolves once that is settled.
C6_CachedWaitsForScheduledTier ==
  \A c \in DOMAIN calls :
    (IsReplicate(c) /\ ReplicateResolved(c) /\ c.cached) =>
      /\ (c.background /\ c.remote /\ heap[c.doc].websocket) => c.remoteSynced
      /\ ~(c.background /\ c.remote) =>
           /\ c.wait = Awaited("idbSynced", c.doc)
           /\ heap[c.doc].idbSynced = "done"

\* A background remote replicate call that found the document cached has
\* resolved after the websocket sync of the document.
C6_Witness ==
  \E c \in DOMAIN calls :
    /\ IsReplicate(c) /\ ReplicateResolved(c) /\ c.cached
    /\ c.background /\ c.remote
    /\ c.wait = Awaited("websocketSynced", c.doc) /\ c.remoteSynced

\* C7: a replicate call with background and remote both true does not
\* resolve before the websocket provider of its document has synced.
C7_BackgroundRemoteWaitsForRemote ==
  \A c \in DOMAIN calls :
    (IsReplicate(c) /\ ReplicateResolved(c) /\ c.background /\ c.remote) =>
      c.remoteSynced

\* C8: a background replicate call does not retain its key when called; its
\* key enters the retained set only in the step after the application's
\* isThoughtLoaded / isLexemeLoaded answer, and only when a record was
\* reported loaded; only records reported loaded are passed to the
\* application's change handler.
C8_BackgroundRetainsLoadedOnly ==
  /\ [](\A c \in DOMAIN calls :
          (IsReplicate(c) /\ c.background) =>
            /\ c.retainedAt # "call"
            /\ c.notified \subseteq c.loaded
            /\ c.retainedAt = "loaded" <=> c.loaded # {}
            /\ c.pc \in {"cached", "idbSynced", "websocketSynced", "isThoughtLoaded",
                         "isLexemeLoaded"} => c.loaded = {})
  /\ [][\A kind \in {"thought", "lexeme"} :
          \A key \in RetainedOf(kind)' \ RetainedOf(kind) :
            \E c \in DOMAIN calls' :
              /\ IsReplicate(c) /\ KindOf(c) = kind /\ c.key = key /\ Stepped(c)
              /\ \/ ~c.background /\ c.pc \in {"cached", "idbSynced"}
                 \/ c.background /\ c.pc \in {"promiseAll", "done"} /\ c.loaded # {}]_vars

\* A background replicate call has retained its key and notified the
\* application of a record reported loaded.
C8_Witness ==
  \E c \in DOMAIN calls :
    /\ IsReplicate(c) /\ c.background /\ c.pc \in {"promiseAll", "done"}
    /\ c.loaded # {} /\ c.notified = c.loaded /\ c.retainedAt = "loaded"
    /\ c.key \in RetainedOf(KindOf(c))

\* C9: getThoughtById of an id without an entry in docKeys fails with an
\* error in the step it is called, and that step creates no document, fills
\* no cache, retains nothing and sets no docKey.
C9_MissingDocKeyFails ==
  [][\A c \in DOMAIN calls' :
       (/\ c.op = "getThoughtById" /\ Stepped(c) /\ issued' > issued
        /\ docKeys[c.id] = None) =>
         /\ c.pc = "done" /\ c.result = "error"
         /\ UNCHANGED <<thoughtVars, lexemeVars, heap, docKeys>>]_vars

\* A getThoughtById of an id without a docKey has failed.
C9_Witness ==
  \E c \in DOMAIN calls :
    /\ c.op = "getThoughtById" /\ c.pc = "done" /\ c.result = "error"
    /\ docKeys[c.id] = None /\ heap = <<>>

\* C10: a deleteThought or deleteLexeme whose database deletion fails with
\* NotFoundError resolves, as one whose deletion succeeds does; with any other
\* error it rejects.
C10_DeleteIgnoresNotFound ==
  \A c \in DOMAIN calls :
    (c.op \in {"deleteThought", "deleteLexeme"} /\ c.pc = "done") =>
      /\ c.purge \in {"ok", "NotFoundError"} => c.result = "ok"
      /\ c.purge \notin {"ok", "NotFoundError"} => c.result = "rejected"

\* A delete whose database deletion failed with NotFoundError has resolved.
C10_Witness ==
  \E c \in DOMAIN calls :
    /\ c.op \in {"deleteThought", "deleteLexeme"} /\ c.pc = "done"
    /\ c.purge = "NotFoundError" /\ c.result = "ok"

\* The doclog holds a delete entry of the thought id.
DeleteLogged(id) ==
  \E i \in DOMAIN doclog : doclog[i] = LogEntry(id, "thought", "Delete")

\* The operation op of key had resolved when the call c was made.
ResolvedBefore(c, op, key) ==
  \E i \in 1..c.after : resolved[i].op = op /\ resolved[i].key = key

\* C11: when deleteThought(k) has resolved and the doclog holds the delete
\* entry of k, a replicateChildren(k) called afterwards with k not resident
\* and the local database of k empty resolves with absent, never with the
\* children stored for k before the delete.
C11_DeletedReplicatesAbsent ==
  \A c \in DOMAIN calls :
    (/\ c.op = "replicateChildren" /\ c.pc = "done"
     /\ ~c.cached /\ c.localEmpty
     /\ DeleteLogged(c.key)
     /\ ResolvedBefore(c, "deleteThought", c.key)) =>
      c.result = "absent"

\* The thoughts whose record is held by the document of another thought.
HasParent(id) == \E p \in ThoughtKeys : id \in childrenMap(p)

ParentOf(id) == CHOOSE p \in ThoughtKeys : id \in childrenMap(p)

\* C12: when deleteThought(k) has resolved, the document of k's parent holds
\* no record of k, neither in memory nor in the local database.
C12_DeleteRemovesFromParent ==
  \A c \in DOMAIN calls :
    (c.op = "deleteThought" /\ c.pc = "done" /\ c.result = "ok" /\ HasParent(c.key)) =>
      LET p == ParentOf(c.key) IN
        /\ c.key \notin indexeddb[p].children
        /\ thoughtDocs[p] # NoDoc => c.key \notin heap[thoughtDocs[p]].content.children

\* The descendants of a thought in the stored tree, at any depth.
Descendants(id) ==
  LET children == childrenMap(id)
  IN children \cup UNION {childrenMap(child) : child \in children}

\* C13: when deleteThought(k) has resolved, docKeys has no entry for k nor
\* for any descendant of k.
C13_DeleteFreesDescendantDocKeys ==
  \A c \in DOMAIN calls :
    (c.op = "deleteThought" /\ c.pc = "done" /\ c.result = "ok") =>
      \A id \in {c.key} \cup Descendants(c.key) : docKeys[id] = None

\* C14: a deleteLexeme that finds the Lexeme in memory removes every context
\* field from the document before the local database is deleted, and a
\* replicateLexeme of the same key called after the delete has resolved
\* returns none of the contexts of the deleted Lexeme.
C14_DeleteLexemeClearsContexts ==
  /\ \A c \in DOMAIN calls :
       (/\ c.op = "deleteLexeme" /\ c.cached
        /\ c.pc \in {"updateLexeme", "freeLexeme", "deleted", "done"}) =>
         /\ c.doc # NoDoc
         /\ LexemeContexts(heap[c.doc].content) = {}
  /\ \A c \in DOMAIN calls :
       (/\ c.op = "replicateLexeme" /\ c.pc = "done"
        /\ \E i \in 1..c.after :
             resolved[i] = [op |-> "deleteLexeme", key |-> c.key, resident |-> TRUE]) =>
         c.nodes = {}

\* C15 (as stated): once HOME has been retained by two foreground
\* replicateChildren calls, a single freeThought leaves HOME retained and its
\* document resident.
C15_OneFreeKeepsRetained ==
  \A c \in DOMAIN calls :
    (c.op = "freeThought" /\ c.pc = "done")
      => (isRetained(thoughtRetained, c.key) /\ thoughtDocs[c.key] # NoDoc)

\* C15 (amended): retention is a set. Once HOME has been retained by two
\* foreground replicateChildren calls that have resolved, a single freeThought
\* unretains HOME, and when that freeThought resolves the document and its
\* providers have been torn down and removed from the cache.
C15_OneFreeUnretains ==
  \A c \in DOMAIN calls :
    c.op = "freeThought"
      => /\ ~isRetained(thoughtRetained, c.key)
         /\ c.pc = "done" => (c.result = "deallocated" /\ Purged("thought", c.key))

\* The single freeThought found the document of HOME resident and resolved.
C15_FreedAfterTwoRetains ==
  \E c \in DOMAIN calls :
    /\ c.op = "freeThought" /\ c.pc = "done" /\ c.cached
    /\ c.key = HOME_TOKEN /\ issued = 3

\* C16: once updateThought of the thought a with parent HOME has resolved, a
\* foreground replicateChildren(HOME) that is called afterwards, builds a new
\* document of HOME from a local database to which nothing else was written,
\* and resolves after local sync and before remote sync, returns a.
C16_ReadYourWrites ==
  \A c \in DOMAIN calls :
    (/\ c.op = "replicateChildren" /\ c.pc = "done" /\ ~c.background
     /\ ~c.cached /\ ~c.remoteSynced
     /\ heap[c.doc].idb = "synced"
     /\ ResolvedBefore(c, "updateThought", c.key))
      => "a" \in c.nodes

\* C17: a device that runs the transaction of updateLexeme a second time with
\* the same lexemeNew and lexemeOld, with no update received in between, has
\* the map the first run left, and getLexeme gives the same Lexeme (or none
\* both times); this covers a transaction that throws.
C17_UpdateLexemeIdempotent ==
  \A device \in Devices :
    (writes[device].times = 2 /\ ~writes[device].received)
      => /\ replicas[device] = writes[device].after
         /\ HasLexeme(replicas[device]) = HasLexeme(writes[device].after)
         /\ HasLexeme(replicas[device])
              => getLexeme(replicas[device]) = getLexeme(writes[device].after)

\* A transaction that added one context and removed another was run twice.
C17_WrittenTwice ==
  \E device \in Devices :
    LET write == writes[device]
    IN /\ write.times = 2 /\ ~write.received /\ ~write.threw
       /\ write.after # write.before
       /\ Range(write.lexemeNew.contexts) \ write.contextsOld # {}
       /\ write.contextsOld \ Range(write.lexemeNew.contexts) # {}
       /\ LexemeContexts(write.before) # LexemeContexts(write.after)

\* C18: when the two devices have run updateLexeme from the same lexemeOld
\* without throwing, one adding a context and the other adding a different
\* one, and a device has received the update of the other, the Lexeme of its
\* document has both contexts; and a transaction leaves every field of a
\* context that it neither adds nor removes as it was.
C18_ConcurrentContextsMerge ==
  /\ \A device \in Devices :
       LET mine == writes[device]
           theirs == writes[Other(device)]
       IN (/\ mine.times > 0 /\ theirs.times > 0
           /\ mine.contextsOld = theirs.contextsOld
           /\ ~mine.threw /\ ~theirs.threw
           /\ mine.received)
            => \A x \in Range(mine.lexemeNew.contexts) \ mine.contextsOld,
                  y \in Range(theirs.lexemeNew.contexts) \ theirs.contextsOld :
                 x # y => {x, y} \subseteq LexemeContexts(replicas[device])
  /\ \A device \in Devices :
       LET write == writes[device]
       IN write.times > 0 =>
            \A id \in ThoughtIds :
              id \notin (Range(write.lexemeNew.contexts) \ write.contextsOld)
                          \cup (write.contextsOld \ Range(write.lexemeNew.contexts))
                => lexemeMapGet(write.after, CxField(id)) =
                     lexemeMapGet(write.before, CxField(id))

\* C19: a new Lexeme with the contexts S, written by updateLexeme to an empty
\* map without throwing, is decoded by getLexeme with exactly the contexts S;
\* the field of each context holds the docKey that docKeys has for it, and
\* replicateLexeme on a device with empty docKeys sets that docKey for it.
C19_ContextsRoundTrip ==
  \A device \in Devices :
    LET write == writes[device]
    IN (/\ write.times > 0 /\ ~write.threw
        /\ write.contextsOld = {} /\ write.before = EmptyLexemeDoc)
         => LET contexts == Range(write.lexemeNew.contexts)
                fresh == [x \in ThoughtIds |-> None]
            IN /\ HasLexeme(write.after)
               /\ getLexeme(write.after).contexts = contexts
               /\ \A x \in contexts :
                    /\ lexemeMapGet(write.after, CxField(x)) = docKeys[x]
                    /\ setContextDocKeys(fresh, write.after)[x] = docKeys[x]

\* C20: the doclog keeps one entry for each entry handed to it, except an
\* entry that was followed at once by an update of the same target, and it
\* ends with the entry handed to it last: update(A), update(A) leaves one
\* entry, update(A), update(B), update(A) leaves three.
C20_LogCompaction ==
  LET kept == {i \in 1..Len(appended) :
                 \/ i = Len(appended)
                 \/ appended[i + 1].action # "Update"
                 \/ appended[i + 1].id # appended[i].id
                 \/ appended[i + 1].type # appended[i].type}
      updateA == LogEntry("a", "thought", "Update")
      updateB == LogEntry("b", "thought", "Update")
  IN /\ Len(doclog) = Cardinality(kept)
     /\ appended # <<>> => doclog[Len(doclog)] = appended[Len(appended)]
     /\ appended = <<updateA, updateA>> => doclog = <<updateA>>
     /\ appended = <<updateA, updateB, updateA>> => doclog = <<updateA, updateB, updateA>>

\* update(a), update(a), update(b), update(a) were handed to the doclog.
C20_CompactedOnce ==
  /\ appended = <<LogEntry("a", "thought", "Update"), LogEntry("a", "thought", "Update"),
                  LogEntry("b", "thought", "Update"), LogEntry("a", "thought", "Update")>>
  /\ Len(doclog) = 3

\* C21: the replication controller starts paused: as long as start has never
\* been called on it, no entry of the doclog has been handed to next and no
\* replicate or delete has been issued.
C21_StartsPaused ==
  ~controller.started => controller.dispatched = <<>> /\ issued = 0

\* The doclog holds entries, pauseReplication and startReplication have been
\* called, start has not, and nothing has been dispatched.
C21_EntriesWaiting ==
  /\ doclog # <<>>
  /\ ~controller.started
  /\ controller.last = "startReplication"
  /\ controller.dispatched = <<>>

\* C22: the controller can be resumed after being paused: once
\* pauseReplication and then startReplication have been called, the
\* controller is running (and so goes on with the entries after the
\* watermark).
C22_ResumedAfterPause ==
  controller.last = "startReplication" /\ controller.before = "pauseReplication"
    => ~controller.paused

\* C23: the controller hands the entries of the doclog to next one at a time
\* and in log order: whenever an entry is dispatched, it is the entry after
\* the one dispatched last, and no call of an earlier step is still in flight.
C23_Sequential ==
  [][controller'.dispatched # controller.dispatched
       => /\ InFlight = EmptyBag
          /\ controller'.dispatched =
               Append(controller.dispatched, Len(controller.dispatched) + 1)]_vars

\* Two entries have been dispatched, the second after a step that issued a
\* call.
C23_TwoSteps ==
  /\ Len(controller.dispatched) = 2
  /\ ~UnknownDocLogAction(doclog[1])
  /\ issued = 2

\* C24: the step of an entry is determined by its action and type. When an
\* entry is dispatched: an update issues exactly one background replicate of
\* the entry's type for its target and leaves the batcher alone; a delete
\* hands the null of the target to the batcher and issues exactly one delete
\* of the entry's type for its target; any other action fails the step and
\* issues no call and hands nothing to the batcher.
C24_StepByActionAndKind ==
  [][controller'.dispatched # controller.dispatched
       => LET i == Len(controller'.dispatched)
              entry == doclog[i]
              nulls == {n \in 1..Len(batcher'.queue) :
                          /\ DOMAIN batcher'.queue[n] = {BatchKey(entry.type, entry.id)}
                          /\ ~batcher'.queue[n][BatchKey(entry.type, entry.id)].live}
              timed == {n \in 1..Len(batcher'.timers) :
                          /\ DOMAIN batcher'.timers[n] = {BatchKey(entry.type, entry.id)}
                          /\ ~batcher'.timers[n][BatchKey(entry.type, entry.id)].live}
          IN IF entry.action = "Update"
               THEN /\ issued' = issued + 1
                    /\ BagCardinality(calls') = 1
                    /\ \A c \in DOMAIN calls' :
                         /\ c.op = IF entry.type = "thought" THEN "replicateChildren"
                                   ELSE "replicateLexeme"
                         /\ c.key = entry.id
                         /\ c.background
                    /\ batcher' = batcher
                    /\ i \notin controller'.errors
             ELSE IF entry.action = "Delete"
               THEN /\ issued' = issued + 1
                    /\ BagCardinality(calls') = 1
                    /\ \A c \in DOMAIN calls' :
                         /\ c.op = IF entry.type = "thought" THEN "deleteThought"
                                   ELSE "deleteLexeme"
                         /\ c.key = entry.id
                    /\ Len(batcher'.submitted) = Len(batcher.submitted) + 1
                    /\ Len(batcher'.queue) + Len(batcher'.timers)
                         = Len(batcher.queue) + Len(batcher.timers) + 1
                    /\ nulls \cup timed # {}
                    /\ i \notin controller'.errors
             ELSE /\ issued' = issued
                  /\ calls' = calls
                  /\ batcher' = batcher
                  /\ i \in controller'.errors]_vars

\* An entry with an unknown action and then a delete have been dispatched,
\* and the batcher has been handed the null of the delete.
C24_DeleteAfterUnknown ==
  /\ Len(controller.dispatched) = 2
  /\ UnknownDocLogAction(doclog[1])
  /\ doclog[2].action = "Delete"
  /\ Len(batcher.submitted) = 1

\* C25: three change notifications for the same key handed to the batcher
\* within one throttle window cause exactly one delivery, and the batch
\* delivered holds only the last value of the key: once the window of three
\* such calls has closed and no timer is pending, onUpdateThoughts has been
\* called once, with the value of the third call.
C25_OneDeliveryPerWindow ==
  /\ Len(batcher.submitted) = 3
  /\ \A n \in 1..3 : /\ batcher.submitted[n].window = 1
                     /\ batcher.submitted[n].keys = batcher.submitted[1].keys
  /\ ~batcher.open
  /\ batcher.timers = <<>>
  => /\ Len(batcher.delivered) = 1
     /\ \A k \in batcher.submitted[1].keys :
          /\ k \in DOMAIN batcher.delivered[1]
          /\ batcher.delivered[1][k].seq = 3

\* C26: the batcher never calls onUpdateThoughts inside the call that handed
\* it a change: a step in which a batch is delivered is not a step in which
\* updateThoughtsThrottled is called.
C26_DeliveryNotInline ==
  [][batcher'.delivered # batcher.delivered
       => batcher'.submitted = batcher.submitted]_vars

\* A batch handed over on the leading edge has been delivered by its timer
\* while the window was still open.
C26_LeadingDelivered ==
  /\ Len(batcher.submitted) = 1
  /\ batcher.open
  /\ Len(batcher.delivered) = 1

\* C27: when persistence.whenSynced of a replicate of k rejects with an
\* AbortError, k is unretained and a free of k is under way, exactly one
\* timer of a new replicate of k with the options of the call is set, and
\* the error is not passed to onError; when the timer fires, k is replicated
\* with these options; and no replicate call is ever rejected.
C27_AbortRetriedOnce ==
  [][/\ \A g \in 1..Len(heap) :
          heap[g].idb = "pending" /\ heap'[g].idb = "AbortError"
            => /\ IF heap[g].kind = "thought"
                    THEN heap[g].key \notin thoughtRetained'
                    ELSE heap[g].key \notin lexemeRetained'
               /\ \E f \in DOMAIN calls' :
                    /\ f.op = IF heap[g].kind = "thought" THEN "freeThought"
                              ELSE "freeLexeme"
                    /\ f.key = heap[g].key /\ f.pc = "free"
               /\ Len(idbErrors'.timers) = Len(idbErrors.timers) + 1
               /\ \E c \in Creators(g) :
                    idbErrors'.timers[Len(idbErrors'.timers)] =
                      [kind |-> heap[g].kind, key |-> c.key,
                       background |-> c.background, remote |-> c.remote]
               /\ idbErrors'.onError = idbErrors.onError
     /\ idbErrors'.retried # idbErrors.retried
          => LET r == Head(idbErrors.timers) IN
               /\ idbErrors'.timers = Tail(idbErrors.timers)
               /\ issued' = issued + 1
               /\ \E c \in DOMAIN calls' :
                    /\ c.op = IF r.kind = "thought" THEN "replicateChildren"
                              ELSE "replicateLexeme"
                    /\ c.key = r.key /\ c.background = r.background
                    /\ c.remote = r.remote /\ c.pc # "done"
                    /\ c.after = Len(resolved)
     /\ \A c \in DOMAIN calls' :
          c.op \in {"replicateChildren", "replicateLexeme"} => c.result # "error"]_vars

\* An AbortError was caught, the key was freed and its document destroyed,
\* and the timer has fired: the key is being replicated into a new document.
C27_ReplicatedAgain ==
  /\ Len(idbErrors.aborted) = 1
  /\ idbErrors.retried = idbErrors.aborted
  /\ idbErrors.onError = <<>>
  /\ Len(heap) = 2
  /\ heap[1].destroyed
  /\ \E c \in DOMAIN InFlight : c.doc = 2 /\ c.key = idbErrors.retried[1].key

\* C28: after freeThought(k) has torn down the document of k, no thought
\* that was a child record of that document is mapped in docKeys.
C28_FreeRemovesChildDocKeys ==
  \A c \in DOMAIN calls :
    /\ c.op = "freeThought" /\ c.pc = "done" /\ c.result = "deallocated"
    /\ c.doc # NoDoc
    => \A child \in getChildren(heap[c.doc].content) : docKeys[child] = None

\* C29: the first access token presented to authenticate for a document is
\* its owner for good: every call of authenticate returns true exactly when
\* its token is the first one ever presented for its document, and the
\* permissions of a document never name another token.
C29_FirstTokenOwns ==
  /\ auth.last.docid # None
       => auth.last.result = (auth.last.accessToken = auth.owner[auth.last.docid])
  /\ \A d \in Docids :
       auth.yPermissions[d] # None => auth.yPermissions[d] = auth.owner[d]

\* C31: a document is never destroyed before its own idbSynced promise has
\* settled: in every step that destroys a document, the idbSynced chain of
\* that document was done before the step.
C31_DestroyedAfterSynced ==
  [][\A g \in 1..Len(heap) :
       ~heap[g].destroyed /\ heap'[g].destroyed => heap[g].idbSynced = "done"]_vars

\* C32: a write sets a scalar field of the resident document only if the new
\* value differs from the value stored for that field: every scalar field
\* that the transaction of a device has set held another value, or none,
\* before the transaction.
C32_ScalarSetOnlyIfChanged ==
  \A device \in Devices :
    writes[device].times > 0 =>
      LET write == writes[device] IN
        \A f \in write.set :
          write.lexemeNew.fields[lexemeKeyFromDb(f)] # lexemeMapGet(write.before, f)

\* C40: when updateLexeme throws for a context without a docKey, the document
\* of the Lexeme is left exactly as it was before the call.
C40_ThrowLeavesDocument ==
  \A device \in Devices :
    writes[device].times > 0 /\ writes[device].threw
      => writes[device].after = writes[device].before

\* The blocks of the array that init itself has created.
CreatedBlocks(b) == {i \in DOMAIN b.array : b.array[i].origin = "init"}

\* C33: init adds a new block to the doclog only after the local database of
\* the doclog has synced, and only if the array then has no block and the
\* thoughtspace is not shared from another device: every step that adds a
\* block of init starts from such a state, and a shared thoughtspace never
\* holds a block that init created.
C33_BlockOnlyAfterSync ==
  [][/\ CreatedBlocks(blocks') # CreatedBlocks(blocks)
          => /\ blocks.whenSynced = "resolved"
             /\ Len(blocks.array) = 0
             /\ ~blocks.tsidShared
     /\ blocks'.tsidShared => CreatedBlocks(blocks') = {}]_vars

\* init has created the starting block, and a block of another device has
\* arrived after it.
C33_StartingBlockCreated ==
  /\ ~blocks.tsidShared
  /\ CreatedBlocks(blocks) = {1}
  /\ Len(blocks.array) > 1

\* C34: the teardown of the document of a thought leaves the docKey of that
\* thought unchanged: in every step that removes the document of k from the
\* cache, docKeys holds for k after the step what it held before.
C34_TeardownKeepsOwnDocKey ==
  [][\A k \in ThoughtKeys :
       thoughtDocs[k] # NoDoc /\ thoughtDocs'[k] = NoDoc
         => docKeys'[k] = docKeys[k]]_vars

\* freeThought has torn down the document of a thought whose docKey is known,
\* and the docKey is still there.
C34_TornDownWithDocKey ==
  \E c \in Calls :
    /\ c.op = "freeThought" /\ c.pc = "done" /\ c.result = "deallocated"
    /\ thoughtDocs[c.key] = NoDoc
    /\ docKeys[c.key] # None
    /\ \E g \in Gens : heap[g].key = c.key /\ heap[g].kind = "thought" /\ heap[g].destroyed

\* C35: when replicateChildren(k) resolves with a list of thoughts, docKeys
\* maps the id of every thought of the list to k and every id in the
\* childrenMap of such a thought to the id of that thought.
C35_ResolvedNodesHaveDocKeys ==
  \A c \in Calls :
    c.op = "replicateChildren" /\ c.pc = "done" /\ c.result = "nodes" =>
      \A child \in c.nodes :
        /\ docKeys[child] = c.key
        /\ \A grandchildId \in childrenMap(child) : docKeys[grandchildId] = child

\* C36: when a background replicate of k resolves and k is not retained, the
\* document of the call and its websocket provider have been destroyed and k
\* is in none of the cache maps of its kind.
C36_BackgroundLeavesNothing ==
  \A c \in Calls :
    (/\ IsReplicate(c) /\ c.background /\ c.pc = "done"
     /\ c.key \notin RetainedOf(KindOf(c))) =>
      /\ Purged(KindOf(c), c.key)
      /\ c.doc # NoDoc =>
           /\ heap[c.doc].destroyed
           /\ heap[c.doc].websocket => heap[c.doc].websocketDestroyed

\* C37: every replicate call eventually settles, even when its document is
\* torn down by a free while the call awaits the websocket sync. A destroyed
\* provider never emits synced, so the call settles only if this holds: no
\* replicate call in flight awaits the websocketSynced promise of a document
\* whose provider was destroyed before it had synced.
C37_NoCallAwaitsDestroyedProvider ==
  \A c \in Calls :
    (/\ IsReplicate(c) /\ c.pc # "done"
     /\ c.wait.promise = "websocketSynced" /\ c.wait.doc # NoDoc) =>
      ~(/\ heap[c.wait.doc].websocketDestroyed
        /\ heap[c.wait.doc].websocketSynced # "synced")

\* C38: every key in a retained set has a document in the cache of its kind.
C38_RetainedIsResident ==
  /\ \A key \in thoughtRetained : thoughtDocs[key] # NoDoc
  /\ \A key \in lexemeRetained : lexemeDocs[key] # NoDoc

\* The keys a cache map holds.
Keys(map) == {key \in DOMAIN map : map[key] # NoDoc}

\* C39: the cache maps of one kind agree: the document map, the persistence
\* map and the idbSynced map hold the same keys, and the websocket provider
\* map and the websocketSynced map hold the same keys, which the document map
\* holds too.
C39_CacheMapsAgree ==
  /\ Keys(thoughtDocs) = Keys(thoughtPersistence)
  /\ Keys(thoughtDocs) = Keys(thoughtIDBSynced)
  /\ Keys(thoughtWebsocketProvider) = Keys(thoughtWebsocketSynced)
  /\ Keys(thoughtWebsocketProvider) \subseteq Keys(thoughtDocs)
  /\ Keys(lexemeDocs) = Keys(lexemePersistence)
  /\ Keys(lexemeDocs) = Keys(lexemeIDBSynced)
  /\ Keys(lexemeWebsocketProvider) = Keys(lexemeWebsocketSynced)
  /\ Keys(lexemeWebsocketProvider) \subseteq Keys(lexemeDocs)

\* The document of a Lexeme has been torn down while the document of a
\* thought, replicated without the websocket server, is cached.
C39_TornDownAndLocalOnly ==
  /\ \E g \in Gens : heap[g].kind = "lexeme" /\ heap[g].destroyed
  /\ Keys(lexemeDocs) = {}
  /\ Keys(thoughtDocs) # {}
  /\ Keys(thoughtWebsocketProvider) # Keys(thoughtDocs)

====
